---- MODULE Spec2Model ----
(***************************************************************************)
(* A model of benchstat (rsc.io/benchstat): the command line of main.go,   *)
(* its reader of benchmark files, the per-metric statistics with the       *)
(* interquartile-range filter, the three table layouts and the two         *)
(* renderers.                                                              *)
(*                                                                         *)
(* Strings whose characters the program inspects (lines, fields, flag      *)
(* values, names) are sequences of one-character strings.  A float64 is an *)
(* exact rational <<num, den>> with den >= 0: den = 0 encodes NaN (num =   *)
(* 0), +Inf (num > 0) and -Inf (num < 0); rounding error is not modelled.  *)
(***************************************************************************)
EXTENDS Integers, Sequences, FiniteSets, TLC

(***************************************************************************)
(* Bounds of the model.                                                    *)
(***************************************************************************)
\* Most lines the input files of one run hold, all files together.
MaxLines == 3
\* Most input files on the command line.
MaxFiles == 3
\* Most values of one metric the statistics are applied to in SpecMetric.
MaxRuns == 5

\* The largest size of a sample given to a function of package stats.
MaxSample == 3

\* The most calls that a caller makes, one after the other, on the data it owns.
MaxCalls == 2

\* The largest float64 that bisect is given, the float64 taken as the
\* integers from 0 to it.
MaxGrid == 3

(***************************************************************************)
(* Character strings.                                                      *)
(***************************************************************************)
S_Benchmark == <<"B","e","n","c","h","m","a","r","k">>
S_nsop == <<"n","s","/","o","p">>
S_Bop == <<"B","/","o","p">>
S_MBs == <<"M","B","/","s">>
S_timeop == <<"t","i","m","e","/","o","p">>
S_allocop == <<"a","l","l","o","c","/","o","p">>
S_speed == <<"s","p","e","e","d">>
S_none == <<"n","o","n","e">>
S_u == <<"u">>
S_u_test == <<"u","-","t","e","s","t">>
S_utest == <<"u","t","e","s","t">>
S_t == <<"t">>
S_t_test == <<"t","-","t","e","s","t">>
S_ttest == <<"t","t","e","s","t">>
S_nan == <<"n","a","n">>
S_inf == <<"i","n","f">>

Upper == <<"A","B","C","D","E","F","G","H","I","J","K","L","M","N","O","P","Q","R","S","T","U","V","W","X","Y","Z">>
Lower == <<"a","b","c","d","e","f","g","h","i","j","k","l","m","n","o","p","q","r","s","t","u","v","w","x","y","z">>
Digit == <<"0","1","2","3","4","5","6","7","8","9">>

IndexIn(c, alphabet) ==
    IF \E i \in 1..Len(alphabet) : alphabet[i] = c
    THEN CHOOSE i \in 1..Len(alphabet) : alphabet[i] = c
    ELSE 0

\* strings.ToLower, on the ASCII letters.
ToLower(s) ==
    [i \in 1..Len(s) |-> IF IndexIn(s[i], Upper) > 0 THEN Lower[IndexIn(s[i], Upper)] ELSE s[i]]

HasPrefix(s, prefix) ==
    Len(s) >= Len(prefix) /\ SubSeq(s, 1, Len(prefix)) = prefix

TrimPrefix(s, prefix) ==
    IF HasPrefix(s, prefix) THEN SubSeq(s, Len(prefix) + 1, Len(s)) ELSE s

Spaces == {" ", "\t", "\r"}

\* The positions in s of the characters of seps, and the k-th of them: 0
\* for k = 0, Len(s) + 1 past the last.
Seps(s, seps) == {i \in 1..Len(s) : s[i] \in seps}

NthSep(s, seps, k) ==
    IF k = 0 THEN 0
    ELSE IF k > Cardinality(Seps(s, seps)) THEN Len(s) + 1
    ELSE CHOOSE p \in Seps(s, seps) : Cardinality({q \in Seps(s, seps) : q < p}) = k - 1

\* The pieces of s between characters of seps, empty pieces included.
Pieces(s, seps) ==
    [k \in 1..Cardinality(Seps(s, seps)) + 1 |->
        SubSeq(s, NthSep(s, seps, k - 1) + 1, NthSep(s, seps, k) - 1)]

\* strings.Split(s, sep) for a one-character separator.
Split(s, sep) == Pieces(s, {sep})

\* strings.Fields: the maximal runs of non-space characters.
Fields(s) == SelectSeq(Pieces(s, Spaces), LAMBDA piece : piece # <<>>)

\* The value of a string of decimal digits.
RECURSIVE DigitsVal(_)
DigitsVal(s) ==
    IF s = <<>> THEN 0
    ELSE 10 * DigitsVal(SubSeq(s, 1, Len(s) - 1)) + (IndexIn(s[Len(s)], Digit) - 1)

IsDigits(s) == Len(s) > 0 /\ \A i \in 1..Len(s) : IndexIn(s[i], Digit) > 0

Unsigned(s) == IF Len(s) > 0 /\ s[1] \in {"+", "-"} THEN Tail(s) ELSE s

Signed(s, v) == IF Len(s) > 0 /\ s[1] = "-" THEN 0 - v ELSE v

\* An int is held as its decimal numeral, without leading zeros and with
\* "-" in front of a negative value: the values of int do not fit the
\* integers of the model.
S_MaxInt == <<"9","2","2","3","3","7","2","0","3","6","8","5","4","7","7","5","8","0","7">>
S_MinInt == <<"-","9","2","2","3","3","7","2","0","3","6","8","5","4","7","7","5","8","0","8">>
Zero == <<"0">>

\* The digits d without their leading zeros.
LeadingZeros(d) == Cardinality({i \in 1..Len(d) : \A j \in 1..i : d[j] = "0"})
StripZeros(d) == IF LeadingZeros(d) = Len(d) THEN Zero ELSE SubSeq(d, LeadingZeros(d) + 1, Len(d))

\* a <= b for numerals of magnitudes.
NumeralLe(a, b) ==
    \/ Len(a) < Len(b)
    \/ /\ Len(a) = Len(b)
       /\ \/ a = b
          \/ \E i \in 1..Len(a) :
                /\ \A j \in 1..i - 1 : a[j] = b[j]
                /\ IndexIn(a[i], Digit) < IndexIn(b[i], Digit)

Negative(s) == Len(s) > 0 /\ s[1] = "-"

\* The int of a sign and a magnitude in range, and the result for one out
\* of range: the nearest int and an error.
Numeral(neg, mag) == IF neg /\ mag # Zero THEN <<"-">> \o mag ELSE mag

AtoiOf(neg, mag) ==
    IF NumeralLe(mag, IF neg THEN Tail(S_MinInt) ELSE S_MaxInt)
    THEN [n |-> Numeral(neg, mag), err |-> FALSE]
    ELSE [n |-> IF neg THEN S_MinInt ELSE S_MaxInt, err |-> TRUE]

\* strconv.Atoi: an optional sign and decimal digits; a string of any other
\* shape gives 0 and an error.
Atoi(s) ==
    IF IsDigits(Unsigned(s)) THEN AtoiOf(Negative(s), StripZeros(Unsigned(s)))
    ELSE [n |-> Zero, err |-> TRUE]

(***************************************************************************)
(* float64 as exact rationals with NaN and the infinities.                 *)
(***************************************************************************)
NaN == <<0, 0>>
PosInf == <<1, 0>>
NegInf == <<-1, 0>>

Abs(x) == IF x < 0 THEN 0 - x ELSE x
Sgn(x) == IF x < 0 THEN -1 ELSE IF x > 0 THEN 1 ELSE 0

RECURSIVE Gcd(_, _)
Gcd(a, b) == IF b = 0 THEN a ELSE Gcd(b, a % b)

IsNaN(x) == x[2] = 0 /\ x[1] = 0
IsInf(x) == x[2] = 0 /\ x[1] # 0
IsFinite(x) == x[2] > 0

\* num/den in lowest terms with a positive denominator (den # 0).
Rat(num, den) ==
    LET g == Gcd(Abs(num), Abs(den))
        s == IF den < 0 THEN -1 ELSE 1
    IN  <<(s * num) \div g, (s * den) \div g>>

FromInt(n) == <<n, 1>>

FNeg(x) == <<0 - x[1], x[2]>>

FAdd(x, y) ==
    IF IsNaN(x) \/ IsNaN(y) THEN NaN
    ELSE IF IsInf(x) /\ IsInf(y) THEN (IF x[1] = y[1] THEN x ELSE NaN)
    ELSE IF IsInf(x) THEN x
    ELSE IF IsInf(y) THEN y
    ELSE Rat(x[1] * (y[2] \div Gcd(x[2], y[2])) + y[1] * (x[2] \div Gcd(x[2], y[2])),
             (x[2] \div Gcd(x[2], y[2])) * y[2])

FSub(x, y) == FAdd(x, FNeg(y))

FMul(x, y) ==
    IF IsNaN(x) \/ IsNaN(y) THEN NaN
    ELSE IF IsInf(x) \/ IsInf(y)
         THEN (IF x[1] = 0 \/ y[1] = 0 THEN NaN ELSE <<Sgn(x[1]) * Sgn(y[1]), 0>>)
    ELSE Rat((x[1] \div Gcd(Abs(x[1]), y[2])) * (y[1] \div Gcd(Abs(y[1]), x[2])),
             (x[2] \div Gcd(Abs(y[1]), x[2])) * (y[2] \div Gcd(Abs(x[1]), y[2])))

\* Division; a zero divisor counts as +0.
FDiv(x, y) ==
    IF IsNaN(x) \/ IsNaN(y) THEN NaN
    ELSE IF IsInf(x) THEN (IF IsInf(y) THEN NaN ELSE <<x[1] * (IF y[1] < 0 THEN -1 ELSE 1), 0>>)
    ELSE IF IsInf(y) THEN <<0, 1>>
    ELSE IF y[1] = 0 THEN (IF x[1] = 0 THEN NaN ELSE <<Sgn(x[1]), 0>>)
    ELSE Rat((x[1] \div Gcd(Abs(x[1]), Abs(y[1]))) * (y[2] \div Gcd(x[2], y[2])),
             (x[2] \div Gcd(x[2], y[2])) * (y[1] \div Gcd(Abs(x[1]), Abs(y[1]))))

\* x < y and x <= y of float64: false as soon as one side is NaN.
FLt(x, y) ==
    /\ ~IsNaN(x) /\ ~IsNaN(y)
    /\ IF IsInf(x) \/ IsInf(y)
       THEN (IF IsInf(x) /\ IsInf(y) THEN x[1] < y[1]
             ELSE IF IsInf(x) THEN x[1] < 0 ELSE y[1] > 0)
       ELSE x[1] * y[2] < y[1] * x[2]

FEq(x, y) == ~IsNaN(x) /\ ~IsNaN(y) /\ ~FLt(x, y) /\ ~FLt(y, x)

FLe(x, y) == FLt(x, y) \/ FEq(x, y)

\* strconv.ParseFloat on the syntax of the token pools: an optional sign and
\* decimal digits, "nan", and "inf" with an optional sign (letters in either
\* case); any other string is an error.
ParseFloat(s) ==
    IF IsDigits(Unsigned(s))
    THEN [val |-> FromInt(Signed(s, DigitsVal(Unsigned(s)))), err |-> FALSE]
    ELSE IF ToLower(s) = S_nan THEN [val |-> NaN, err |-> FALSE]
    ELSE IF ToLower(Unsigned(s)) = S_inf THEN [val |-> <<Signed(s, 1), 0>>, err |-> FALSE]
    ELSE [val |-> <<0, 1>>, err |-> TRUE]

(***************************************************************************)
(* Options: a nil pointer is <<>>, a pointer to x is <<x>>.                *)
(***************************************************************************)
Nil == <<>>
Some(x) == <<x>>
IsNil(o) == o = <<>>
Deref(o) == o[1]

(***************************************************************************)
(* readFile: Group, Benchmark, Run, Metric.  A Group is                    *)
(* [File, Benchmarks, ByName]; ByName maps a name to the position in       *)
(* Benchmarks of the Benchmark it points to.                               *)
(***************************************************************************)
EmptyGroup(file) == [File |-> file, Benchmarks |-> <<>>, ByName |-> <<>>]

\* UnitName without the switch: every unit under its own name.
UnitNameSame(unit) == unit

\* The switch on the unit: the metric name a unit is recorded under.
UnitName(unit) ==
    CASE unit = S_nsop -> S_timeop
      [] unit = S_Bop -> S_allocop
      [] unit = S_MBs -> S_speed
      [] OTHER -> unit

\* The loop over the (value, unit) pairs f[i], f[i+1] for i = 2, 4, ... while
\* i+2 <= len(f); f[i] of the Go slice is f[i+1] here.
\* One (value, unit) pair: nothing when the value does not parse.
RunMetric(pf, unit) ==
    IF pf.err THEN <<>> ELSE <<[Name |-> UnitName(unit), Unit |-> unit, Val |-> pf.val]>>

RECURSIVE RunMetrics(_, _)
RunMetrics(f, i) ==
    IF i + 2 > Len(f) THEN <<>>
    ELSE RunMetric(ParseFloat(f[i + 1]), f[i + 2]) \o RunMetrics(f, i + 2)

\* g.ByName[name]: a pointer to the Benchmark, nil when the map has no such key.
ByNameGet(g, name) ==
    IF name \in DOMAIN g.ByName THEN Some(g.Benchmarks[g.ByName[name]]) ELSE Nil

\* AddRun that puts a new Benchmark in front of the others.
AddRunFirst(g, name, r) ==
    IF IsNil(ByNameGet(g, name))
    THEN [g EXCEPT !.Benchmarks = <<[Name |-> name, Runs |-> <<r>>]>> \o @,
                   !.ByName = [k \in DOMAIN @ \cup {name} |->
                                  IF k = name THEN 1 ELSE @[k] + 1]]
    ELSE [g EXCEPT !.Benchmarks[g.ByName[name]].Runs = Append(@, r)]

\* The end of the loop body: find or create the Benchmark, append the run.
AddRun(g, name, r) ==
    IF IsNil(ByNameGet(g, name))
    THEN [g EXCEPT !.Benchmarks = Append(@, [Name |-> name, Runs |-> <<r>>]),
                   !.ByName = [k \in DOMAIN @ \cup {name} |->
                                  IF k = name THEN Len(g.Benchmarks) + 1 ELSE @[k]]]
    ELSE [g EXCEPT !.Benchmarks[g.ByName[name]].Runs = Append(@, r)]

\* FieldsAccepted without the tests of the count and of the metrics.
FieldsAcceptedAny(f) ==
    /\ Len(f) >= 4
    /\ HasPrefix(f[1], S_Benchmark)

\* Whether the body of readFile's loop reaches its end for this line.
FieldsAccepted(f) ==
    /\ Len(f) >= 4
    /\ HasPrefix(f[1], S_Benchmark)
    /\ Atoi(f[2]).n # Zero
    /\ RunMetrics(f, 2) # <<>>

LineAccepted(line) == FieldsAccepted(Fields(line))

\* One iteration of readFile's loop over the lines.
readFields(g, f) ==
    IF ~FieldsAccepted(f) THEN g
    ELSE AddRun(g, TrimPrefix(f[1], S_Benchmark), [N |-> Atoi(f[2]).n, M |-> RunMetrics(f, 2)])

readLine(g, line) == readFields(g, Fields(line))

RECURSIVE readLines(_, _)
readLines(g, lines) ==
    IF lines = <<>> THEN g ELSE readLines(readLine(g, Head(lines)), Tail(lines))

\* readFile on a file that could be read, with contents text.
readFile(file, text) == readLines(EmptyGroup(file), Split(text, "\n"))

(***************************************************************************)
(* Group.Metrics: the metric names in order of first appearance.           *)
(***************************************************************************)
RECURSIVE Flatten(_)
Flatten(ss) == IF ss = <<>> THEN <<>> ELSE Head(ss) \o Flatten(Tail(ss))

RECURSIVE Dedup(_, _)
Dedup(s, have) ==
    IF s = <<>> THEN <<>>
    ELSE IF Head(s) \in have THEN Dedup(Tail(s), have)
    ELSE <<Head(s)>> \o Dedup(Tail(s), have \cup {Head(s)})

RunsMetrics(b) == Flatten([i \in 1..Len(b.Runs) |-> b.Runs[i].M])

Metrics(g) ==
    Dedup(Flatten([i \in 1..Len(g.Benchmarks) |->
              [j \in 1..Len(RunsMetrics(g.Benchmarks[i])) |->
                  RunsMetrics(g.Benchmarks[i])[j].Name]]), {})

(***************************************************************************)
(* The statistics package, as far as Benchmark.Metric uses it.             *)
(***************************************************************************)
\* The order of sort.Float64s: NaN first, then ascending.
SortLess(x, y) == FLt(x, y) \/ (IsNaN(x) /\ ~IsNaN(y))

RECURSIVE Insert(_, _)
Insert(s, x) ==
    IF s = <<>> THEN <<x>>
    ELSE IF SortLess(x, Head(s)) THEN <<x>> \o s
    ELSE <<Head(s)>> \o Insert(Tail(s), x)

RECURSIVE Sort(_)
Sort(xs) == IF xs = <<>> THEN <<>> ELSE Insert(Sort(SubSeq(xs, 1, Len(xs) - 1)), xs[Len(xs)])

RECURSIVE FoldMin(_, _)
FoldMin(xs, m) ==
    IF xs = <<>> THEN m ELSE FoldMin(Tail(xs), IF FLt(Head(xs), m) THEN Head(xs) ELSE m)

RECURSIVE FoldMax(_, _)
FoldMax(xs, m) ==
    IF xs = <<>> THEN m ELSE FoldMax(Tail(xs), IF FLt(m, Head(xs)) THEN Head(xs) ELSE m)

\* stats.Bounds: (min, max); (+Inf, -Inf) for no values.
Bounds(xs) == [min |-> FoldMin(xs, PosInf), max |-> FoldMax(xs, NegInf)]

RECURSIVE Sum(_)
Sum(xs) == IF xs = <<>> THEN <<0, 1>> ELSE FAdd(Head(xs), Sum(Tail(xs)))

\* stats.Mean: the sum over the count, 0/0 for no values.
Mean(xs) == FDiv(Sum(xs), FromInt(Len(xs)))

\* Sample.Percentile of an unweighted sample: min for p <= 0, max for p >= 1,
\* else the interpolation between neighbours of the sorted sample at
\* position 1/3 + p*(N + 1/3), the one that gives the values of
\* TestSamplePercentile.
Floor(x) == x[1] \div x[2]

Interpolate(s, k, frac) ==
    IF k <= 0 THEN s[1]
    ELSE IF k >= Len(s) THEN s[Len(s)]
    ELSE FAdd(s[k], FMul(frac, FSub(s[k + 1], s[k])))

PercentileAt(s, n) == Interpolate(s, Floor(n), FSub(n, FromInt(Floor(n))))

\* The position p * N.
PercentileWeight(N, p) == FMul(p, FromInt(N))

\* The position in the sorted sample of N values that percentile p is
\* read at.
PercentilePosition(N, p) == FAdd(<<1, 3>>, FMul(p, FAdd(FromInt(N), <<1, 3>>)))

Percentile(xs, p) ==
    IF Len(xs) = 0 THEN NaN
    ELSE IF FLe(p, <<0, 1>>) THEN Bounds(xs).min
    ELSE IF FLe(<<1, 1>>, p) THEN Bounds(xs).max
    ELSE PercentileAt(Sort(xs), PercentilePosition(Len(xs), p))

(***************************************************************************)
(* Benchmark.Metric: the values of one metric, the outlier filter and the  *)
(* statistics of what it keeps.  b is a pointer to a Benchmark.            *)
(***************************************************************************)
NameIs(m, name) == m.Name = name

MetricValues(b, name) == SelectSeq(RunsMetrics(b), LAMBDA m : NameIs(m, name))

\* The bounds lo, hi of the interquartile range rule.
FencesOf(q1, q3) ==
    [lo |-> FSub(q1, FMul(<<3, 2>>, FSub(q3, q1))),
     hi |-> FAdd(q3, FMul(<<3, 2>>, FSub(q3, q1)))]

Fences(values) == FencesOf(Percentile(values, <<1, 4>>), Percentile(values, <<3, 4>>))

\* Kept that keeps every value.
KeptAll(fence, value) == TRUE

\* lo <= value && value <= hi
Kept(fence, value) == FLe(fence.lo, value) /\ FLe(value, fence.hi)

\* The loop that fills stat.RValues.
RValuesOf(values, fence) == SelectSeq(values, LAMBDA v : Kept(fence, v))

\* The Benchstat that Metric returns.
Benchstat(name, unit, values, rvalues) ==
    Some([Name |-> name,
          Unit |-> unit,
          Values |-> values,
          RValues |-> rvalues,
          Min |-> Bounds(rvalues).min,
          Max |-> Bounds(rvalues).max,
          Mean |-> Mean(rvalues)])

ValuesOf(ms) == [i \in 1..Len(ms) |-> ms[i].Val]

MetricOf(name, ms, values) ==
    IF ms = <<>> THEN Nil
    ELSE Benchstat(name, ms[Len(ms)].Unit, values, RValuesOf(values, Fences(values)))

Metric(b, name) ==
    IF IsNil(b) THEN Nil
    ELSE MetricOf(name, MetricValues(Deref(b), name), ValuesOf(MetricValues(Deref(b), name)))


(***************************************************************************)
(* The significance tests.  Their failures are computed; the p-value of a  *)
(* test that succeeds is any of PValues (MannWhitneyUTest and              *)
(* TwoSampleWelchTTest return a probability).                              *)
(***************************************************************************)
NoError == "nil"
ErrZeroVariance == "ErrZeroVariance"
ErrSampleSize == "ErrSampleSize"
ErrSamplesEqual == "ErrSamplesEqual"

\* The text of an error, as %s prints it.
ErrorText(err) ==
    CASE err = ErrSamplesEqual -> "all samples are equal"
      [] err = ErrZeroVariance -> "zero variance"
      [] err = ErrSampleSize -> "too few samples"
      [] OTHER -> "<nil>"

PValues == {<<1, 20>>, <<51, 1000>>}

AllEqual(xs) == \A i, j \in 1..Len(xs) : FEq(xs[i], xs[j])

\* The sample variance is 0: finite values, all of them equal.
ZeroVariance(xs) == AllEqual(xs) /\ \A i \in 1..Len(xs) : IsFinite(xs[i])

\* TwoSampleWelchTTest: the sample-size error for fewer than two values in
\* a sample, the zero-variance error when both variances are 0.
WelchError(x1, x2) ==
    IF Len(x1) <= 1 \/ Len(x2) <= 1 THEN ErrSampleSize
    ELSE IF ZeroVariance(x1) /\ ZeroVariance(x2) THEN ErrZeroVariance
    ELSE NoError

\* The sizes of the tie groups of a sorted sample.
RECURSIVE TieVector(_)
TieVector(s) ==
    IF s = <<>> THEN <<>>
    ELSE LET n == Cardinality({i \in 1..Len(s) : \A j \in 1..i : FEq(s[j], s[1])})
         IN  <<n>> \o TieVector(SubSeq(s, n + 1, Len(s)))

\* The sample-size error alone.
UTestErrorSizeOnly(x1, x2) ==
    IF Len(x1) = 0 \/ Len(x2) = 0 THEN ErrSampleSize ELSE NoError

\* MannWhitneyUTest: the sample-size error for an empty sample, the
\* all-samples-equal error when the pooled sample is one tie group.
UTestError(x1, x2) ==
    IF Len(x1) = 0 \/ Len(x2) = 0 THEN ErrSampleSize
    ELSE IF Len(TieVector(Sort(x1 \o x2))) = 1 THEN ErrSamplesEqual
    ELSE NoError

Failed(err) == {[pval |-> <<-1, 1>>, err |-> err]}
Passed == {[pval |-> p, err |-> NoError] : p \in PValues}

\* notest, ttest, utest: the results (pval, err) a call can return.
notest(old, new) == {[pval |-> <<-1, 1>>, err |-> NoError]}

ttest(old, new) ==
    IF WelchError(old.RValues, new.RValues) # NoError
    THEN Failed(WelchError(old.RValues, new.RValues))
    ELSE Passed

utest(old, new) ==
    IF UTestError(old.RValues, new.RValues) # NoError
    THEN Failed(UTestError(old.RValues, new.RValues))
    ELSE Passed

\* deltaTestNames without the entry for "u".
deltaTestNamesNoU(name) ==
    CASE name = S_none -> "notest"
      [] name \in {S_u_test, S_utest} -> "utest"
      [] name \in {S_t, S_t_test, S_ttest} -> "ttest"
      [] OTHER -> "nil"

\* deltaTestNames: the function a name maps to, "nil" for no entry.
deltaTestNames(name) ==
    CASE name = S_none -> "notest"
      [] name \in {S_u, S_u_test, S_utest} -> "utest"
      [] name \in {S_t, S_t_test, S_ttest} -> "ttest"
      [] OTHER -> "nil"

\* The call deltaTest(old, new) through the function value.
CallTest(test, old, new) ==
    CASE test = "notest" -> notest(old, new)
      [] test = "ttest" -> ttest(old, new)
      [] test = "utest" -> utest(old, new)

(***************************************************************************)
(* Formatting.  A formatted float is [special, dec, n]: the number n /     *)
(* 10^dec printed with dec decimals, or "NaN", "+Inf", "-Inf".             *)
(***************************************************************************)
RECURSIVE Pow10(_)
Pow10(e) == IF e <= 0 THEN 1 ELSE 10 * Pow10(e - 1)

\* The integer nearest to num/den (den > 0), halves to the even one.
RoundRat(num, den) ==
    LET f == (2 * num + den) \div (2 * den)
    IN  IF (2 * num + den) % (2 * den) = 0 /\ f % 2 # 0 THEN f - 1 ELSE f

\* fmt's %.<dec>f of a float64.
FormatFloat(x, dec) ==
    IF IsNaN(x) THEN [special |-> "NaN", dec |-> dec, n |-> 0]
    ELSE IF IsInf(x) THEN [special |-> IF x[1] > 0 THEN "+Inf" ELSE "-Inf", dec |-> dec, n |-> 0]
    ELSE [special |-> "", dec |-> dec, n |-> RoundRat(x[1] * Pow10(dec), x[2])]

\* x * 10^e.
MulPow10(x, e) ==
    IF e >= 0 THEN FMul(x, <<Pow10(e), 1>>) ELSE FDiv(x, <<Pow10(0 - e), 1>>)

RECURSIVE DivPow10(_, _)
DivPow10(n, e) == IF e <= 0 THEN n ELSE DivPow10(n \div 10, e - 1)

\* x >= 995 * 10^e, the shape of every threshold of the two scalers.
Ge995(x, e) ==
    IF IsNaN(x) THEN FALSE
    ELSE IF IsInf(x) THEN x[1] > 0
    ELSE IF e >= 0 THEN DivPow10(x[1], e) >= 995 * x[2]
    ELSE x[1] * Pow10(0 - e) >= 995 * x[2]

\* The first case of a scaler's switch that holds: case j tests
\* x >= 995 * 10^(top - j), and the default is case last.
RECURSIVE FirstCase(_, _, _, _)
FirstCase(x, top, j, last) ==
    IF j >= last THEN last
    ELSE IF Ge995(x, top - j) THEN j
    ELSE FirstCase(x, top, j + 1, last)

TimeUnits == <<"s", "ms", "us", "ns">>
SizeUnits == <<"T", "G", "M", "k", "">>

\* Benchstat.TimeScaler: the switch on Mean/1e9 with thresholds 99.5, 9.95,
\* ..., 0.00000000995; the scaler prints Mean/1e9*scale.
TimeCase(j) ==
    [dec |-> j % 3, exp |-> 3 * (j \div 3) - 9, suffix |-> <<TimeUnits[(j \div 3) + 1]>>]

TimeScaler(b) == TimeCase(FirstCase(b.Mean, 8, 0, 11))

\* Benchstat.Scaler: the switch on Mean*prescale with thresholds
\* 99500000000000, ..., 9.95; the scaler prints Mean/scale.
Prescale(unit) == IF unit = S_MBs THEN 6 ELSE 0

SizeCase(j, unit) ==
    [dec |-> j % 3,
     exp |-> Prescale(unit) - (12 - 3 * (j \div 3)),
     suffix |-> <<SizeUnits[(j \div 3) + 1]>>
                \o (IF unit = S_Bop THEN <<"B">> ELSE <<>>)
                \o (IF unit = S_MBs THEN <<"B/s">> ELSE <<>>)]

Scaler(b) ==
    IF b.Name = S_timeop THEN TimeScaler(b)
    ELSE SizeCase(FirstCase(b.Mean, 11 - Prescale(b.Unit), 0, 14), b.Unit)

\* The call scaler(b) of the closure a scaler is.
Scaled(scaler, b) ==
    [num |-> FormatFloat(MulPow10(b.Mean, scaler.exp), scaler.dec), suffix |-> scaler.suffix]

\* Benchstat.Format: "<scaled mean> ±<diff>%".
\* diff := 1 - b.Min/b.Mean; if d := b.Max/b.Mean - 1; d > diff { diff = d }
Diff(diff, d) == IF FLt(diff, d) THEN d ELSE diff

Format(b, scaler) ==
    [k |-> "stat",
     mean |-> Scaled(scaler, b),
     diff |-> FormatFloat(FMul(Diff(FSub(<<1, 1>>, FDiv(b.Min, b.Mean)),
                                    FSub(FDiv(b.Max, b.Mean), <<1, 1>>)), <<100, 1>>), 0)]

\* Table cells: a string of the input (str), a literal of the program
\* (lit), a literal followed by a string (cat), a formatted statistic
\* (stat), and the cells of the delta columns.
Str(s) == [k |-> "str", s |-> s]
Lit(t) == [k |-> "lit", t |-> t]
Cat(t, s) == [k |-> "cat", t |-> t, s |-> s]

\* cell == "".
IsEmpty(cell) == cell.k = "str" /\ cell.s = <<>>


(***************************************************************************)
(* main: the tables.  A table is a sequence of rows, a row a sequence of   *)
(* cells.                                                                  *)
(***************************************************************************)
\* case 1: one table per metric of the file, one row per benchmark that
\* has the metric.
RowOne(name, stat) ==
    IF IsNil(stat) THEN <<>>
    ELSE <<<<Str(name), Format(Deref(stat), Scaler(Deref(stat)))>>>>

RECURSIVE RowsOne(_, _, _)
RowsOne(before, metric, i) ==
    IF i > Len(before.Benchmarks) THEN <<>>
    ELSE RowOne(before.Benchmarks[i].Name, Metric(Some(before.Benchmarks[i]), metric))
         \o RowsOne(before, metric, i + 1)

TableOne(before, metric) == <<<<Lit("name"), Str(metric)>>>> \o RowsOne(before, metric, 1)



TablesOne(before) == [m \in 1..Len(Metrics(before)) |-> TableOne(before, Metrics(before)[m])]

\* Significant with the threshold 0.01.
SignificantAt01(pval) == FLe(pval, <<1, 100>>)

\* case 2: the delta column.  pval <= 0.05.
Significant(pval) == FLe(pval, <<5, 100>>)

\* ((new.Mean/old.Mean)-1.0)*100.0 under %+.2f%%.
PercentChange(old, new) ==
    [k |-> "pct",
     pct |-> FormatFloat(FMul(FSub(FDiv(new.Mean, old.Mean), <<1, 1>>), <<100, 1>>), 2)]

\* ErrorCells without the case of the sample-size error.
ErrorCellsNoSize(testerr) ==
    IF testerr = ErrZeroVariance THEN <<Lit("zero variance")>>
    ELSE IF testerr # NoError THEN <<[k |-> "err", t |-> ErrorText(testerr)]>>
    ELSE <<>>

\* The cells a failed test appends to the row.
ErrorCells(testerr) ==
    IF testerr = ErrZeroVariance THEN <<Lit("zero variance")>>
    ELSE IF testerr = ErrSampleSize THEN <<Lit("too few samples")>>
    ELSE IF testerr # NoError THEN <<[k |-> "err", t |-> ErrorText(testerr)]>>
    ELSE <<>>

\* DeltaCell with the test for significance left out.
DeltaCellAlways(old, new, pval, testerr) ==
    IF testerr = NoError THEN PercentChange(old, new) ELSE Lit("~   ")

\* row[3]: "~   ", replaced by the percent change when the test did not
\* fail and pval <= 0.05.
DeltaCell(old, new, pval, testerr) ==
    IF testerr = NoError /\ Significant(pval) THEN PercentChange(old, new) ELSE Lit("~   ")

\* "(p=%0.3f n=%d+%d)", appended when the row still has four cells and pval
\* is not -1.
PValueCells(row, old, new, pval) ==
    IF Len(row) = 4 /\ ~FEq(pval, <<-1, 1>>)
    THEN <<[k |-> "pn", p |-> FormatFloat(pval, 3),
            n1 |-> Len(old.RValues), n2 |-> Len(new.RValues)]>>
    ELSE <<>>

\* The row of one benchmark in case 2, for the result res of deltaTest.
TwoFileCells(name, old, new, res, scaler) ==
    <<Str(name), Format(old, scaler), Format(new, scaler),
      DeltaCell(old, new, res.pval, res.err)>> \o ErrorCells(res.err)

WithPValue(row, old, new, pval) == row \o PValueCells(row, old, new, pval)

TwoFileRow(name, old, new, res) ==
    WithPValue(TwoFileCells(name, old, new, res, Scaler(old)), old, new, res.pval)

TwoFileHeader(metric) == <<Lit("name"), Cat("old ", metric), Cat("new ", metric), Lit("delta")>>

\* default: one table per metric, one column per file.
S_benchKey == <<"b","e","n","c","h",":">>
S_metricKey == <<"m","e","t","r","i","c",":">>
BenchKey(metric, name) == S_benchKey \o metric \o <<"/">> \o name
MetricKey(metric) == S_metricKey \o metric

\* The cells of a row after the name: every group's statistic in the scale
\* of the first group that has one, "" for a group that has none.
ManyCell(stat, scaler) ==
    IF IsNil(stat) THEN <<Str(<<>>)>> ELSE <<Format(Deref(stat), Deref(scaler))>>

\* if scaler == nil { scaler = stat.Scaler() }
FirstScaler(stat, scaler) ==
    IF IsNil(scaler) /\ ~IsNil(stat) THEN Some(Scaler(Deref(stat))) ELSE scaler

RECURSIVE ManyCells(_, _, _, _, _)
ManyCellsFrom(gs, gi, name, metric, stat, scaler) ==
    ManyCell(stat, scaler) \o ManyCells(gs, gi + 1, name, metric, scaler)

ManyCellsAt(gs, gi, name, metric, scaler, stat) ==
    ManyCellsFrom(gs, gi, name, metric, stat, FirstScaler(stat, scaler))

ManyCells(gs, gi, name, metric, scaler) ==
    IF gi > Len(gs) THEN <<>>
    ELSE ManyCellsAt(gs, gi, name, metric, scaler, Metric(ByNameGet(gs[gi], name), metric))

\* for row[len(row)-1] == "" { row = row[:len(row)-1] }: indexing the empty
\* row panics.
RECURSIVE StripTrailing(_)
StripTrailing(row) ==
    IF row = <<>> THEN [panic |-> TRUE, row |-> row]
    ELSE IF IsEmpty(row[Len(row)]) THEN StripTrailing(SubSeq(row, 1, Len(row) - 1))
    ELSE [panic |-> FALSE, row |-> row]

ManyRow(gs, name, metric) == StripTrailing(<<Str(name)>> \o ManyCells(gs, 1, name, metric, Nil))

\* The benchmarks whose rows the table of a metric gets: those of the group
\* the loop is at.
ManyBenchmarks(gs, gi) == gs[gi].Benchmarks

\* The loop over the benchmarks of one table.
RECURSIVE ManyRows(_, _, _, _, _, _)
ManyRowsAdd(gs, benchmarks, bj, metric, done, table, key, r) ==
    IF key \in done THEN ManyRows(gs, benchmarks, bj + 1, metric, done, table)
    ELSE IF r.panic THEN [panic |-> TRUE, table |-> table, done |-> done]
    ELSE ManyRows(gs, benchmarks, bj + 1, metric, done \cup {key}, Append(table, r.row))

ManyRows(gs, benchmarks, bj, metric, done, table) ==
    IF bj > Len(benchmarks) THEN [panic |-> FALSE, table |-> table, done |-> done]
    ELSE ManyRowsAdd(gs, benchmarks, bj, metric, done, table,
                     BenchKey(metric, benchmarks[bj].Name),
                     ManyRow(gs, benchmarks[bj].Name, metric))

ManyHeader(gs, metric) ==
    <<Cat("name \\ ", metric)>> \o [i \in 1..Len(gs) |-> Lit(gs[i].File)]

\* The loops over the groups and their metrics.
RECURSIVE ManyLoop(_, _, _, _, _)
ManyTable(gs, gi, mj, done, tables, key, t) ==
    IF key \in done THEN ManyLoop(gs, gi, mj + 1, done, tables)
    ELSE IF t.panic THEN [panic |-> TRUE, tables |-> tables]
    ELSE ManyLoop(gs, gi, mj + 1, t.done, Append(tables, t.table))

ManyMetric(gs, gi, mj, done, tables, metric) ==
    ManyTable(gs, gi, mj, done, tables, MetricKey(metric),
              ManyRows(gs, ManyBenchmarks(gs, gi), 1, metric,
                       done \cup {MetricKey(metric)}, <<ManyHeader(gs, metric)>>))

ManyLoop(gs, gi, mj, done, tables) ==
    IF gi > Len(gs) THEN [panic |-> FALSE, tables |-> tables]
    ELSE IF mj > Len(Metrics(gs[gi])) THEN ManyLoop(gs, gi + 1, 1, done, tables)
    ELSE ManyMetric(gs, gi, mj, done, tables, Metrics(gs[gi])[mj])

TablesMany(gs) == ManyLoop(gs, 1, 1, {}, <<>>)

(***************************************************************************)
(* main: printing.  A buffer is the sequence of the Fprintf calls made on  *)
(* it: [f, col, s] is format f applied to cell s with the width of column  *)
(* col (the longest cell of the column over all tables); col is 0 where    *)
(* the format takes no width.                                              *)
(***************************************************************************)
Newline == [f |-> "\n", col |-> 0, s |-> Lit("")]

\* The headings: case 0, case len(row)-1, default.
TextHeading(row) ==
    [i \in 1..Len(row) |->
        IF i = 1 THEN [f |-> "%-*s", col |-> i, s |-> row[i]]
        ELSE IF i = Len(row) THEN [f |-> "  %s\n", col |-> 0, s |-> row[i]]
        ELSE [f |-> "  %-*s", col |-> i, s |-> row[i]]]

TextRow(row) ==
    [i \in 1..Len(row) |->
        IF i = 1 THEN [f |-> "%-*s", col |-> i, s |-> row[i]]
        ELSE [f |-> "  %*s", col |-> i, s |-> row[i]]] \o <<Newline>>

TextTable(table) ==
    TextHeading(table[1]) \o Flatten([r \in 1..Len(table) - 1 |-> TextRow(table[r + 1])])

\* printRow: the cells are passed through html.EscapeString.
HTMLRow(row, tag) ==
    <<[f |-> "<tr>", col |-> 0, s |-> Lit("")]>>
    \o [i \in 1..Len(row) |-> [f |-> "<%s>%s</%s>", col |-> 0, s |-> [k |-> "escaped", tag |-> tag, cell |-> row[i]]]]
    \o <<Newline>>

\* What the -html branch writes for one table.
HTMLTable(table) ==
    <<[f |-> "<style>.benchstat tbody td:nth-child(1n+2) { text-align: right; padding: 0em 1em; }</style>\n", col |-> 0, s |-> Lit("")],
      [f |-> "<table class='benchstat'>\n", col |-> 0, s |-> Lit("")]>>
    \o HTMLRow(table[1], "th")
    \o Flatten([r \in 1..Len(table) - 1 |-> HTMLRow(table[r + 1], "td")])
    \o <<[f |-> "</table>\n", col |-> 0, s |-> Lit("")]>>

\* The buffer the -html branch writes a table to: the variable buf it
\* declares inside the loop, which the loop body drops at continue.
HTMLBuffer(table) == [inner |-> HTMLTable(table), outer |-> <<>>]

\* One round of the loop over the tables: what it appends to the buffer
\* that main writes to standard output.
PrintTable(i, table, html) ==
    (IF i > 1 THEN <<Newline>> ELSE <<>>)
    \o (IF html THEN HTMLBuffer(table).outer ELSE TextTable(table))

PrintTables(tbls, html) == Flatten([i \in 1..Len(tbls) |-> PrintTable(i, tbls[i], html)])


(***************************************************************************)
(* The program: benchstat [-delta-test name] [-html] file...               *)
(***************************************************************************)
VARIABLES
    pc,         \* where main is: "flags", "read", "tables", "print", or how
                \* it ended: "usage", "fatal", "panic", "done"
    argv,       \* the command line; flag.Parse leaves the file arguments
    flagHTML,   \* *flagHTML
    deltaTest,  \* the function deltaTestNames gave, by name
    linesLeft,  \* input lines the files still to be read can have
    input,      \* the contents of the files read so far
    lines,      \* readFile: the lines of the file not yet looked at
    groups,     \* before, after and the groups of the further files
    mi,         \* case 2: index of the metric in before.Metrics()
    bi,         \* case 2: index of the benchmark in before.Benchmarks
    table,      \* case 2: the rows of the table being built
    tables,
    tests,      \* history of the calls of deltaTest
    stdout,     \* what was written to os.Stdout
    exit,       \* the exit status, Running until the process has ended
    call        \* a call of a function of package stats: its arguments, its
                \* position and its result

vars == <<call, pc, argv, flagHTML, deltaTest, linesLeft, input, lines, groups, mi, bi, table,
          tables, tests, stdout, exit>>

Running == -1

\* Input lines: fields joined by single spaces.
RECURSIVE Join(_)
Join(f) == IF Len(f) <= 1 THEN Flatten(f) ELSE f[1] \o <<" ">> \o Join(Tail(f))

S_1 == <<"1">>
S_2 == <<"2">>
S_BenchmarkA == S_Benchmark \o <<"A">>
L_A1 == Join(<<S_BenchmarkA, S_1, S_1, S_nsop, S_2, S_Bop>>)
L_A2 == Join(<<S_BenchmarkA, S_1, S_2, S_nsop>>)
L_E == Join(<<S_Benchmark, S_1, S_1, S_nsop>>)
MainLines == {L_A1, L_A2, L_E}

SeqsUpTo(S, n) == UNION {[1..k -> S] : k \in 0..n}

\* The contents of a file with the given lines.
Text(ls) == Flatten([i \in 1..Len(ls) |-> ls[i] \o <<"\n">>])

\* Command lines: the value of -delta-test if given, whether -html is
\* given, the value of -alpha if given, and the number of file arguments;
\* file i can be read or not.
S_UTEST == <<"U","T","E","S","T">>
S_T_Test == <<"T","-","T","e","s","t">>
S_None == <<"N","o","n","e">>
S_utests == <<"u","t","e","s","t","s">>
S_w == <<"w">>
TestNames ==
    {S_none, S_u, S_u_test, S_utest, S_t, S_t_test, S_ttest,
     S_UTEST, S_T_Test, S_None, S_utests, S_w, <<>>}

Commands ==
    [deltaTest : {Nil} \cup {Some(n) : n \in TestNames},
     html : BOOLEAN,
     alpha : {Nil, Some(<<1, 100>>)},
     files : 0..MaxFiles]

FileName(i) == ToString(i)

\* flag.String("delta-test", "utest", ...): the value of *flagDeltaTest.
FlagDeltaTest(a) == IF IsNil(a.deltaTest) THEN S_utest ELSE Deref(a.deltaTest)

\* flag.Parse fails on a flag that is not defined: only delta-test and html
\* are.
ParseFails(a) == ~IsNil(a.alpha)

\* flag.Args(): what flag.Parse leaves of the command line.
Args(a) == [deltaTest |-> Nil, html |-> FALSE, alpha |-> Nil, files |-> a.files]

\* UsageError without the check of the -delta-test name.
UsageErrorNoFile(a) == a.files < 1

\* flag.NArg() < 1 || deltaTest == nil
UsageError(a) == a.files < 1 \/ deltaTestNames(ToLower(FlagDeltaTest(a))) = "nil"

Init ==
    /\ pc = "flags"
    /\ argv \in Commands
    /\ flagHTML = FALSE
    /\ deltaTest = "nil"
    /\ linesLeft = MaxLines
    /\ input = <<>>
    /\ lines = <<>>
    /\ groups = <<>>
    /\ mi = 1
    /\ bi = 1
    /\ table = <<>>
    /\ tables = <<>>
    /\ tests = <<>>
    /\ stdout = <<>>
    /\ exit = Running
    /\ call = Nil

\* usage(): os.Exit(2).
Usage ==
    /\ pc = "flags"
    /\ ParseFails(argv) \/ UsageError(argv)
    /\ pc' = "usage"
    /\ exit' = 2
    /\ UNCHANGED <<call, argv, flagHTML, deltaTest, linesLeft, input, lines, groups, mi, bi, table,
                   tables, tests, stdout>>

ParseFlags ==
    /\ pc = "flags"
    /\ ~ParseFails(argv)
    /\ ~UsageError(argv)
    /\ flagHTML' = argv.html
    /\ deltaTest' = deltaTestNames(ToLower(FlagDeltaTest(argv)))
    /\ argv' = Args(argv)
    /\ pc' = "read"
    /\ UNCHANGED <<call, linesLeft, input, lines, groups, mi, bi, table, tables, tests, stdout,
                   exit>>

\* readFile of the next file argument, the file being readable.
ReadFile ==
    /\ pc = "read"
    /\ Len(groups) < argv.files
    /\ \E ls \in SeqsUpTo(MainLines, linesLeft) :
          /\ groups' = Append(groups, readFile(FileName(Len(groups) + 1), Text(ls)))
          /\ input' = Append(input, Text(ls))
          /\ linesLeft' = linesLeft - Len(ls)
    /\ pc' = IF Len(groups') = argv.files THEN "tables" ELSE "read"
    /\ UNCHANGED <<call, argv, flagHTML, deltaTest, lines, mi, bi, table, tables, tests, stdout,
                   exit>>

\* readFile: ioutil.ReadFile fails, log.Fatal.
ReadFileFatal ==
    /\ pc = "read"
    /\ Len(groups) < argv.files
    /\ pc' = "fatal"
    /\ exit' = 1
    /\ UNCHANGED <<call, argv, flagHTML, deltaTest, linesLeft, input, lines, groups, mi, bi, table,
                   tables, tests, stdout>>

\* case 1.
BuildOne ==
    /\ pc = "tables"
    /\ argv.files = 1
    /\ tables' = TablesOne(groups[1])
    /\ pc' = "print"
    /\ UNCHANGED <<call, argv, flagHTML, deltaTest, linesLeft, input, lines, groups, mi, bi, table,
                   tests, stdout, exit>>

\* case 2: before has no metric, the loop body never runs.
CompareNone ==
    /\ pc = "tables"
    /\ Len(groups) = 2
    /\ Metrics(groups[1]) = <<>>
    /\ pc' = "print"
    /\ UNCHANGED <<call, argv, flagHTML, deltaTest, linesLeft, input, lines, groups, mi, bi, table,
                   tables, tests, stdout, exit>>

\* case 2: the rows the loop body adds for benchmark bi and metric mi; a
\* call of deltaTest is recorded in tests.
Compared(metric, name, old, new, test) ==
    {[rows |-> <<TwoFileRow(name, old, new, res)>>,
      calls |-> <<[metric |-> metric, name |-> name, old |-> old.RValues,
                   new |-> new.RValues, pval |-> res.pval, err |-> res.err]>>] :
     res \in CallTest(test, old, new)}

ComparePair(metric, name, old, new, test) ==
    IF IsNil(old) \/ IsNil(new) THEN {[rows |-> <<>>, calls |-> <<>>]}
    ELSE Compared(metric, name, Deref(old), Deref(new), test)

CompareRows(before, after, metric, oldBench, test) ==
    ComparePair(metric, oldBench.Name, Metric(Some(oldBench), metric),
                Metric(ByNameGet(after, oldBench.Name), metric), test)

\* case 2: one round of the inner loop, with the end of the table and of
\* the outer loop when it is the last one.
CompareStep ==
    /\ pc = "tables"
    /\ Len(groups) = 2
    /\ mi <= Len(Metrics(groups[1]))
    /\ LET before == groups[1]
           metric == Metrics(before)[mi]
           last == bi = Len(before.Benchmarks)
       IN  /\ \E r \in CompareRows(before, groups[2], metric, before.Benchmarks[bi], deltaTest) :
                 /\ tests' = tests \o r.calls
                 /\ table' = IF last THEN <<>> ELSE table \o r.rows
                 /\ tables' = IF last /\ Len(table \o r.rows) > 0
                              THEN Append(tables, <<TwoFileHeader(metric)>> \o table \o r.rows)
                              ELSE tables
           /\ bi' = IF last THEN 1 ELSE bi + 1
           /\ mi' = IF last THEN mi + 1 ELSE mi
           /\ pc' = IF last /\ mi = Len(Metrics(before)) THEN "print" ELSE "tables"
    /\ UNCHANGED <<call, argv, flagHTML, deltaTest, linesLeft, input, lines, groups, stdout, exit>>

\* default: more than two files.
BuildMany ==
    /\ pc = "tables"
    /\ Len(groups) > 2
    /\ ~TablesMany(groups).panic
    /\ tables' = TablesMany(groups).tables
    /\ pc' = "print"
    /\ UNCHANGED <<call, argv, flagHTML, deltaTest, linesLeft, input, lines, groups, mi, bi, table,
                   tests, stdout, exit>>

\* default: the index out of range in the loop that strips a row; a
\* panicking Go program exits with status 2.
BuildManyPanic ==
    /\ pc = "tables"
    /\ Len(groups) > 2
    /\ TablesMany(groups).panic
    /\ pc' = "panic"
    /\ exit' = 2
    /\ UNCHANGED <<call, argv, flagHTML, deltaTest, linesLeft, input, lines, groups, mi, bi, table,
                   tables, tests, stdout>>

\* The loop over the tables, os.Stdout.Write and the return from main.
PrintStep ==
    /\ pc = "print"
    /\ stdout' = PrintTables(tables, flagHTML)
    /\ pc' = "done"
    /\ exit' = 0
    /\ UNCHANGED <<call, argv, flagHTML, deltaTest, linesLeft, input, lines, groups, mi, bi, table,
                   tables, tests>>

Next ==
    \/ Usage
    \/ ParseFlags
    \/ ReadFile
    \/ ReadFileFatal
    \/ BuildOne
    \/ CompareNone
    \/ CompareStep
    \/ BuildMany
    \/ BuildManyPanic
    \/ PrintStep

Spec == Init /\ [][Next]_vars


(***************************************************************************)
(* readFile line by line: the loop over the lines of one file, on lines    *)
(* of every shape the loop body tells apart.                               *)
(***************************************************************************)
S_0 == <<"0">>
S_x == <<"x">>
S_neg2 == <<"-", "2">>
S_benchA == <<"b","e","n","c","h","A">>
S_widgets == <<"w","i","d","g","e","t","s">>
ReadNames == {S_BenchmarkA, S_Benchmark, S_benchA}
S_big == [i \in 1..20 |-> "9"]
ReadCounts == {S_1, S_0, S_x, S_neg2, S_big}
ReadValues ==
    {<<>>, <<S_1>>, <<S_1, S_nsop>>, <<S_x, S_nsop>>, <<S_2, S_Bop>>, <<S_2, S_MBs>>,
     <<S_2, S_widgets>>, <<S_x, S_nsop, S_2, S_Bop>>, <<S_1, S_nsop, S_2>>}
ReadLinesPool == {Join(<<n, c>> \o v) : n \in ReadNames, c \in ReadCounts, v \in ReadValues}

\* The command line with n file arguments and no flag.
Files(n) == [deltaTest |-> Nil, html |-> FALSE, alpha |-> Nil, files |-> n]

InitRead ==
    /\ pc = "read"
    /\ argv = Files(1)
    /\ flagHTML = FALSE
    /\ deltaTest = "utest"
    /\ linesLeft = 0
    /\ \E ctx \in SeqsUpTo(MainLines, MaxLines - 1), l \in ReadLinesPool, at \in 0..MaxLines - 1 :
          /\ at <= Len(ctx)
          /\ input = <<Text(SubSeq(ctx, 1, at) \o <<l>> \o SubSeq(ctx, at + 1, Len(ctx)))>>
    /\ lines = Split(input[1], "\n")
    /\ groups = <<EmptyGroup(FileName(1))>>
    /\ mi = 1
    /\ bi = 1
    /\ table = <<>>
    /\ tables = <<>>
    /\ tests = <<>>
    /\ stdout = <<>>
    /\ exit = Running
    /\ call = Nil

\* One iteration of readFile's loop over the lines.
ReadLine ==
    /\ pc = "read"
    /\ lines # <<>>
    /\ groups' = <<readLine(groups[1], Head(lines))>>
    /\ lines' = Tail(lines)
    /\ UNCHANGED <<call, pc, argv, flagHTML, deltaTest, linesLeft, input, mi, bi, table, tables,
                   tests, stdout, exit>>

NextRead == ReadLine

SpecRead == InitRead /\ [][NextRead]_vars

(***************************************************************************)
(* The tables of one or two files that have been read: BenchmarkA with up  *)
(* to MaxRuns runs in one file and a few samples in the other, BenchmarkB  *)
(* in both or in neither.                                                  *)
(***************************************************************************)
S_3 == <<"3">>
S_9 == <<"9">>
S_NaN == <<"N","a","N">>
S_BenchmarkB == S_Benchmark \o <<"B">>
L_B == Join(<<S_BenchmarkB, S_1, S_3, S_nsop>>)
ValueLine(v) == Join(<<S_BenchmarkA, S_1, v, S_nsop>>)
SampleLines(vs) == [i \in 1..Len(vs) |-> ValueLine(vs[i])]
OldSamples == SeqsUpTo({S_1, S_9}, MaxRuns)
NewSamples == {<<>>, <<S_1>>, <<S_9>>, <<S_1, S_1>>, <<S_1, S_9>>, <<S_NaN>>}

\* The contents of the two files: old's BenchmarkA runs then BenchmarkB,
\* BenchmarkB then new's BenchmarkA runs; swapped, the other way round.
SampleFiles(old, new, b, swap) ==
    IF swap THEN <<Text(b \o SampleLines(new)), Text(SampleLines(old) \o b)>>
    ELSE <<Text(SampleLines(old) \o b), Text(b \o SampleLines(new))>>

InitMetric ==
    /\ pc = "tables"
    /\ argv \in {Files(1), Files(2)}
    /\ flagHTML = FALSE
    /\ deltaTest \in {"notest", "utest", "ttest"}
    /\ linesLeft = 0
    /\ \E old \in OldSamples, new \in NewSamples, b \in {<<>>, <<L_B>>}, swap \in BOOLEAN :
          input = SubSeq(SampleFiles(old, new, b, swap), 1, argv.files)
    /\ lines = <<>>
    /\ groups = [i \in 1..Len(input) |-> readFile(FileName(i), input[i])]
    /\ mi = 1
    /\ bi = 1
    /\ table = <<>>
    /\ tables = <<>>
    /\ tests = <<>>
    /\ stdout = <<>>
    /\ exit = Running
    /\ call = Nil

NextMetric ==
    \/ BuildOne
    \/ CompareNone
    \/ CompareStep
    \/ PrintStep

SpecMetric == InitMetric /\ [][NextMetric]_vars


(***************************************************************************)
(* Package stats, one call at a time: main is idle, and call holds the     *)
(* function called, its arguments, and its result once it has returned.    *)
(***************************************************************************)
mainVars == <<pc, argv, flagHTML, deltaTest, linesLeft, input, lines, groups, mi, bi, table,
              tables, tests, stdout, exit>>

Idle ==
    /\ pc = "stats"
    /\ argv = Files(0)
    /\ flagHTML = FALSE
    /\ deltaTest = "utest"
    /\ linesLeft = 0
    /\ input = <<>>
    /\ lines = <<>>
    /\ groups = <<>>
    /\ mi = 1
    /\ bi = 1
    /\ table = <<>>
    /\ tables = <<>>
    /\ tests = <<>>
    /\ stdout = <<>>
    /\ exit = Running

\* Samples of up to MaxSample small values, in any order.
Ints(s) == [i \in 1..Len(s) |-> FromInt(s[i])]
SmallSamples == {Ints(s) : s \in SeqsUpTo({1, 2, 4}, MaxSample)}

\* The sample of TestSamplePercentile.
TestSample == Ints(<<15, 20, 35, 40, 50>>)

PercentileArgs ==
    {<<-1, 1>>, <<0, 1>>, <<1, 20>>, <<1, 4>>, <<3, 10>>, <<2, 5>>, <<1, 2>>, <<3, 4>>,
     <<19, 20>>, <<1, 1>>, <<2, 1>>}

InitPercentile ==
    /\ Idle
    /\ \E xs \in (SmallSamples \ {<<>>}) \cup {TestSample}, p \in PercentileArgs :
          call = [fn |-> "Percentile", xs |-> xs, p |-> p, returned |-> FALSE, result |-> NaN]

\* s.Percentile(p)
CallPercentile ==
    /\ call.fn = "Percentile"
    /\ ~call.returned
    /\ call' = [call EXCEPT !.returned = TRUE, !.result = Percentile(call.xs, call.p)]
    /\ UNCHANGED mainVars

NextPercentile == CallPercentile

SpecPercentile == InitPercentile /\ [][NextPercentile]_vars

(***************************************************************************)
(* The distribution of the Mann-Whitney U statistic without ties:          *)
(* UDist.p, its three loops taken one step at a time by the actions and    *)
(* run to their end by the operators of the same names.                    *)
(***************************************************************************)
maxint(a, b) == IF a > b THEN a ELSE b

minint(a, b) == IF a < b THEN a ELSE b

RECURSIVE sumint(_)
sumint(xs) == IF xs = <<>> THEN 0 ELSE Head(xs) + sumint(Tail(xs))

\* The binomial coefficient; math.Exp of minus infinity makes it 0 when k
\* is not in 0..n.
RECURSIVE choose(_, _)
choose(n, k) ==
    IF k < 0 \/ k > n THEN 0
    ELSE IF k = 0 THEN 1
    ELSE (choose(n - 1, k - 1) * n) \div k

\* memo := make([][]float64, N+1), every row U+1 zeros
pMemo(N, U) == [n \in 0..N |-> [u \in 0..U |-> <<0, 1>>]]

\* The row of p_{n,m}: the row memo[n] itself, whatever it holds.
rpSame(memo, n, m) == memo[n]

\* The row of p_{n,m-1}: by symmetry the row of p_{m-1,n} when m = n.
rp(memo, n, m) == IF n <= m - 1 THEN memo[n] ELSE memo[m - 1]

\* l, for lp = memo[n-1]
pLeft(memo, n, m, U1) ==
    IF U1 - m >= 0 THEN FMul(FromInt(n), memo[n - 1][U1 - m]) ELSE <<0, 1>>

\* out[U1] = (l + r) / nplusm
pEntry(memo, n, m, U1) ==
    FDiv(FAdd(pLeft(memo, n, m, U1), FMul(FromInt(m), rp(memo, n, m)[U1])), FromInt(n + m))

pSet(memo, n, m, U1) == [memo EXCEPT ![n][U1] = pEntry(memo, n, m, U1)]

nlim(N, m) == minint(N, m)

ulim(n, m, U) == minint(n * m, U)

\* for U1 := ulim; U1 >= 0; U1--
RECURSIVE pEntries(_, _, _, _)
pEntries(memo, n, m, U1) ==
    IF U1 < 0 THEN memo ELSE pEntries(pSet(memo, n, m, U1), n, m, U1 - 1)

\* for n := 1; n <= nlim; n++
RECURSIVE pCells(_, _, _, _, _)
pCells(memo, N, U, m, n) ==
    IF n > nlim(N, m) THEN memo
    ELSE pCells(pEntries(memo, n, m, ulim(n, m, U)), N, U, m, n + 1)

\* for m := 0; m <= M; m++
RECURSIVE pRows(_, _, _, _, _)
pRows(memo, N, M, U, m) ==
    IF m > M THEN memo
    ELSE pRows(pCells([memo EXCEPT ![0][0] = <<1, 1>>], N, U, m, 1), N, M, U, m + 1)

\* d.p(U) for d = UDist{N1, N2}
p(N1, N2, U) ==
    pRows(pMemo(minint(N1, N2), U), minint(N1, N2), maxint(N1, N2), U, 0)[minint(N1, N2)]

InitP ==
    /\ Idle
    /\ \E N1 \in 0..MaxSample, N2 \in 0..MaxSample :
          \E U \in 0..(N1 * N2 + 1) :
             call = [fn |-> "p", N1 |-> N1, N2 |-> N2, U |-> U,
                     N |-> minint(N1, N2), M |-> maxint(N1, N2),
                     memo |-> pMemo(minint(N1, N2), U),
                     at |-> "m", m |-> 0, n |-> 0, U1 |-> 0,
                     returned |-> FALSE, result |-> <<>>]

Inp(at) == call.fn = "p" /\ ~call.returned /\ call.at = at

\* One turn of the loop over m, up to the loop over n.
pRow ==
    /\ Inp("m")
    /\ call.m <= call.M
    /\ call' = [call EXCEPT !.memo[0][0] = <<1, 1>>, !.n = 1, !.at = "n"]
    /\ UNCHANGED mainVars

\* One turn of the loop over n, up to the loop over U1, or its end.
pCell ==
    /\ Inp("n")
    /\ IF call.n <= nlim(call.N, call.m)
       THEN call' = [call EXCEPT !.U1 = ulim(call.n, call.m, call.U), !.at = "U1"]
       ELSE call' = [call EXCEPT !.m = call.m + 1, !.at = "m"]
    /\ UNCHANGED mainVars

\* One turn of the loop over U1, or its end.
pOut ==
    /\ Inp("U1")
    /\ IF call.U1 >= 0
       THEN call' = [call EXCEPT !.memo = pSet(call.memo, call.n, call.m, call.U1),
                                 !.U1 = call.U1 - 1]
       ELSE call' = [call EXCEPT !.n = call.n + 1, !.at = "n"]
    /\ UNCHANGED mainVars

\* return memo[N]
pReturn ==
    /\ Inp("m")
    /\ call.m > call.M
    /\ call' = [call EXCEPT !.returned = TRUE, !.result = call.memo[call.N]]
    /\ UNCHANGED mainVars

NextP == pRow \/ pCell \/ pOut \/ pReturn

SpecP == InitP /\ [][NextP]_vars

(***************************************************************************)
(* The hypergeometric distribution of N elements, K of them marked, and    *)
(* Draws of them drawn: the number of marked elements drawn.               *)
(***************************************************************************)
HypergeometicDist(N, K, Draws) == [N |-> N, K |-> K, Draws |-> Draws]

HypergeometicPMF(d, k) ==
    IF k < maxint(0, d.Draws + d.K - d.N) \/ k > minint(d.Draws, d.K) THEN <<0, 1>>
    ELSE Rat(choose(d.K, k) * choose(d.N - d.K, d.Draws - k), choose(d.N, d.Draws))

\* The sum of the PMF over i <= k
RECURSIVE HypergeometicCDF(_, _)
HypergeometicCDF(d, k) ==
    IF k < maxint(0, d.Draws + d.K - d.N) THEN <<0, 1>>
    ELSE FAdd(HypergeometicPMF(d, minint(k, d.Draws)),
              HypergeometicCDF(d, minint(k, d.Draws) - 1))

(***************************************************************************)
(* The distribution of the Mann-Whitney U statistic with ties: makeUmemo.  *)
(* A tie vector t is a sequence, so that t[k] here is t[k-1] of the code.  *)
(***************************************************************************)
UDist(N1, N2, T) == [N1 |-> N1, N2 |-> N2, T |-> T]

hasTies(d) == \E i \in 1..Len(d.T) : d.T[i] > 1

\* int(x) of a float64: toward zero.
TruncInt(x) == IF x[1] >= 0 THEN x[1] \div x[2] ELSE 0 - ((0 - x[1]) \div x[2])

\* a / b of two ints, b > 0: toward zero.
Quo(a, b) == IF a >= 0 THEN a \div b ELSE 0 - ((0 - a) \div b)

ukey(n1, twoU) == [n1 |-> n1, twoU |-> twoU]

\* The coefficients a[1..K]
RECURSIVE aCoefficient(_, _)
aCoefficient(t, k) == IF k = 1 THEN t[1] ELSE aCoefficient(t, k - 1) + t[k - 1] + t[k]

aCoefficients(t) == [k \in 1..Len(t) |-> aCoefficient(t, k)]

\* The walk of twoUmin from k up to K with n1_k elements left to place.
RECURSIVE twoUminFrom(_, _, _, _, _)
twoUminFrom(k, K, n1_k, t, a) ==
    IF k > K THEN 0
    ELSE minint(n1_k, t[k]) * a[k] + twoUminFrom(k + 1, K, n1_k - minint(n1_k, t[k]), t, a)

twoUmin(K, n1, t, a) == (0 - n1 * n1) + twoUminFrom(1, K, n1, t, a)

\* The walk of twoUmax from k down to 1 with n1_k elements left to place.
RECURSIVE twoUmaxFrom(_, _, _, _)
twoUmaxFrom(k, n1_k, t, a) ==
    IF k <= 0 THEN 0
    ELSE minint(n1_k, t[k]) * a[k] + twoUmaxFrom(k - 1, n1_k - minint(n1_k, t[k]), t, a)

\* twoUmax that walks up from the first tie group, as twoUmin does.
twoUmaxUp(K, n1, t, a) == (0 - n1 * n1) + twoUminFrom(1, K, n1, t, a)

twoUmax(K, n1, t, a) == (0 - n1 * n1) + twoUmaxFrom(K, n1, t, a)

\* twoU_k and n1_k of a key one level up, a_k its coefficient, and rk
\* elements put in its tie group.
keyBelow(key, rk, a_k) ==
    ukey(key.n1 - rk, key.twoU - rk * (a_k - 2 * key.n1 + rk))

\* rkLow..rkHigh for a key of the level whose tie group holds t_k elements
\* and follows tsum others.
rkRange(key, tsum, t_k) == maxint(0, key.n1 - tsum)..minint(key.n1, t_k)

inBounds(k, key, t, a) ==
    twoUmin(k, key.n1, t, a) <= key.twoU /\ key.twoU <= twoUmax(k, key.n1, t, a)

\* keysBelow whose rk stops one short of rkHigh.
keysBelowShort(k, above, t, a) ==
    UNION {{keyBelow(key, rk, a[k + 1])
               : rk \in rkRange(key, sumint(SubSeq(t, 1, k)), t[k + 1] - 1)}
           : key \in above}

\* The keys of pr[k], made from those of pr[k+1].
keysBelow(k, above, t, a) ==
    UNION {{keyBelow(key, rk, a[k + 1]) : rk \in rkRange(key, sumint(SubSeq(t, 1, k)), t[k + 1])}
           : key \in above}

RECURSIVE prKeys(_, _, _, _, _)
prKeys(k, twoU, n1, t, a) ==
    IF k >= Len(t) THEN {ukey(n1, twoU)}
    ELSE {key \in keysBelow(k, prKeys(k + 1, twoU, n1, t, a), t, a) : inBounds(k, key, t, a)}

\* pr[2][pr_2i]
prBase(key, t) ==
    HypergeometicCDF(HypergeometicDist(t[1] + t[2], t[2], key.n1),
                     Quo(key.twoU - key.n1 * (t[1] - key.n1), t[1] + t[2]))

\* pr[k-1][key], 0 for a key that is not in the map.
prGet(pr, key) == IF key \in DOMAIN pr THEN pr[key] ELSE <<0, 1>>

\* What rk adds to prsum.
prTerm(k, key, rk, below, t, a) ==
    IF inBounds(k - 1, keyBelow(key, rk, a[k]), t, a)
    THEN FMul(prGet(below, keyBelow(key, rk, a[k])),
              HypergeometicPMF(HypergeometicDist(sumint(SubSeq(t, 1, k)), t[k], key.n1), rk))
    ELSE IF twoUmax(k - 1, key.n1 - rk, t, a) < keyBelow(key, rk, a[k]).twoU
    THEN HypergeometicPMF(HypergeometicDist(sumint(SubSeq(t, 1, k)), t[k], key.n1), rk)
    ELSE <<0, 1>>

\* for rk := rkLow; rk <= rkHigh; rk++
RECURSIVE prSum(_, _, _, _, _, _, _)
prSum(k, key, rk, rkHigh, below, t, a) ==
    IF rk > rkHigh THEN <<0, 1>>
    ELSE FAdd(prTerm(k, key, rk, below, t, a), prSum(k, key, rk + 1, rkHigh, below, t, a))

\* pr[k] from pr[k-1]
prAbove(k, keys, below, t, a) ==
    [key \in keys |->
        prSum(k, key, maxint(0, key.n1 - sumint(SubSeq(t, 1, k - 1))), minint(key.n1, t[k]),
              below, t, a)]

RECURSIVE prLevel(_, _, _, _, _)
prLevel(k, twoU, n1, t, a) ==
    IF k <= 2 THEN [key \in prKeys(2, twoU, n1, t, a) |-> prBase(key, t)]
    ELSE prAbove(k, prKeys(k, twoU, n1, t, a), prLevel(k - 1, twoU, n1, t, a), t, a)

\* makeUmemo(twoU, n1, t), for K >= 2; it panics for K < 2.
makeUmemo(twoU, n1, t) == [k \in 2..Len(t) |-> prLevel(k, twoU, n1, t, aCoefficients(t))]

makeUmemoPanics(t) == Len(t) < 2

\* makeUmemo(twoU, d.N1, d.T)[len(d.T)][ukey{d.N1, twoU}], for K >= 2
Umemo(d, twoU) == prGet(makeUmemo(twoU, d.N1, d.T)[Len(d.T)], ukey(d.N1, twoU))

(***************************************************************************)
(* UDist: PMF, CDF and Step.  U is a float64 of the caller's.              *)
(***************************************************************************)
\* The sum of pdfs[:Ui+1]
RECURSIVE SumTo(_, _)
SumTo(pdfs, Ui) == IF Ui < 0 THEN <<0, 1>> ELSE FAdd(pdfs[Ui], SumTo(pdfs, Ui - 1))

N1N2(d) == d.N1 * d.N2

\* flip := Ui >= (d.N1*d.N2+1)/2
flip(d, Ui) == Ui >= (N1N2(d) + 1) \div 2

\* The other tail, one entry too long.
flippedLong(d, Ui) == IF flip(d, Ui) THEN N1N2(d) - Ui ELSE Ui

\* Ui after the flip
flipped(d, Ui) == IF flip(d, Ui) THEN N1N2(d) - Ui - 1 ELSE Ui

\* The sum of the tail, whichever it is.
tailKept(d, flipping, Ui) == SumTo(p(d.N1, d.N2, Ui), Ui)

\* The sum of pdfs[:Ui+1], taken from 1 after a flip.
tail(d, flipping, Ui) ==
    IF flipping THEN FSub(<<1, 1>>, SumTo(p(d.N1, d.N2, Ui), Ui)) ELSE SumTo(p(d.N1, d.N2, Ui), Ui)

\* CDF without ties, from Ui on
CDFNoTies(d, Ui) == tail(d, flip(d, Ui), flipped(d, Ui))

CDFBelow(U) == FLt(U, <<0, 1>>)

CDFAbove(d, U) == FLe(FromInt(N1N2(d)), U)

\* d.CDF(U), where it returns
CDF(d, U) ==
    IF CDFBelow(U) THEN <<0, 1>>
    ELSE IF CDFAbove(d, U) THEN <<1, 1>>
    ELSE IF hasTies(d) THEN Umemo(d, TruncInt(FMul(<<2, 1>>, U)))
    ELSE CDFNoTies(d, Floor(U))

PMFOutside(d, U) == FLt(U, <<0, 1>>) \/ FLe(FAdd(<<1, 2>>, FromInt(N1N2(d))), U)

\* p2 - p1
PMFTied(d, U) ==
    FSub(Umemo(d, TruncInt(FMul(<<2, 1>>, U))), Umemo(d, TruncInt(FMul(<<2, 1>>, U)) - 1))

\* d.PMF(U), where it returns
PMF(d, U) ==
    IF PMFOutside(d, U) THEN <<0, 1>>
    ELSE IF hasTies(d) THEN PMFTied(d, U)
    ELSE p(d.N1, d.N2, Floor(U))[Floor(U)]

\* d.Step()
Step(d) == <<1, 2>>

\* The tie vectors of n elements, none for no ties.
RECURSIVE TieVectors(_)
TieVectors(n) ==
    IF n = 0 THEN {<<>>}
    ELSE UNION {{<<h>> \o r : r \in TieVectors(n - h)} : h \in 1..n}

UDists ==
    UNION {{UDist(N1, N2, T) : T \in TieVectors(N1 + N2) \cup {<<>>}}
           : N1 \in 0..MaxSample, N2 \in 0..MaxSample}

\* The multiples of a half from -1/2 to N1*N2 + 1/2
HalfIntegers(d) == {Rat(h, 2) : h \in (0 - 1)..(2 * N1N2(d) + 1)}

InitUDist ==
    /\ Idle
    /\ \E fn \in {"CDF", "PMF", "Step"}, d \in UDists :
          \E U \in HalfIntegers(d) :
             call = [fn |-> fn, d |-> d, U |-> U, at |-> "range", Ui |-> 0, flip |-> FALSE,
                     returned |-> FALSE, panic |-> "", result |-> NaN]

InUDist(fn, at) == call.fn = fn /\ ~call.returned /\ call.panic = "" /\ call.at = at

Return(v) == call' = [call EXCEPT !.returned = TRUE, !.result = v]

Panic(text) == call' = [call EXCEPT !.panic = text]

\* CDF up to the choice between the two algorithms
CDFRange ==
    /\ InUDist("CDF", "range")
    /\ IF CDFBelow(call.U) THEN Return(<<0, 1>>)
       ELSE IF CDFAbove(call.d, call.U) THEN Return(<<1, 1>>)
       ELSE call' = [call EXCEPT !.at = IF hasTies(call.d) THEN "ties" ELSE "noties"]
    /\ UNCHANGED mainVars

CDFTies ==
    /\ InUDist("CDF", "ties")
    /\ IF makeUmemoPanics(call.d.T) THEN Panic("K < 2")
       ELSE Return(Umemo(call.d, TruncInt(FMul(<<2, 1>>, call.U))))
    /\ UNCHANGED mainVars

\* Ui, flip and the Ui of the tail that is summed
CDFFlip ==
    /\ InUDist("CDF", "noties")
    /\ call' = [call EXCEPT !.flip = flip(call.d, Floor(call.U)),
                            !.Ui = flipped(call.d, Floor(call.U)),
                            !.at = "sum"]
    /\ UNCHANGED mainVars

\* The sum of pdfs[:Ui+1]; d.p(Ui) panics when Ui is negative.
CDFSum ==
    /\ InUDist("CDF", "sum")
    /\ IF call.Ui < 0 THEN Panic("index out of range")
       ELSE Return(tail(call.d, call.flip, call.Ui))
    /\ UNCHANGED mainVars

PMFRange ==
    /\ InUDist("PMF", "range")
    /\ IF PMFOutside(call.d, call.U) THEN Return(<<0, 1>>)
       ELSE call' = [call EXCEPT !.at = IF hasTies(call.d) THEN "ties" ELSE "noties"]
    /\ UNCHANGED mainVars

PMFTies ==
    /\ InUDist("PMF", "ties")
    /\ IF makeUmemoPanics(call.d.T) THEN Panic("K < 2")
       ELSE Return(PMFTied(call.d, call.U))
    /\ UNCHANGED mainVars

PMFNoTies ==
    /\ InUDist("PMF", "noties")
    /\ Return(p(call.d.N1, call.d.N2, Floor(call.U))[Floor(call.U)])
    /\ UNCHANGED mainVars

CallStep ==
    /\ InUDist("Step", "range")
    /\ Return(Step(call.d))
    /\ UNCHANGED mainVars

NextUDist ==
    \/ CDFRange
    \/ CDFTies
    \/ CDFFlip
    \/ CDFSum
    \/ PMFRange
    \/ PMFTies
    \/ PMFNoTies
    \/ CallStep

SpecUDist == InitUDist /\ [][NextUDist]_vars

(***************************************************************************)
(* The tests of package stats that ttest and utest call, and Student's t   *)
(* distribution.                                                           *)
(***************************************************************************)
LocationDiffers == "LocationDiffers"
LocationLess == "LocationLess"
LocationGreater == "LocationGreater"
Alternatives == {LocationDiffers, LocationLess, LocationGreater}

\* math.Min and math.Max: NaN as soon as one side is NaN.
FMin(x, y) == IF IsNaN(x) \/ IsNaN(y) THEN NaN ELSE IF FLt(y, x) THEN y ELSE x

FMax(x, y) == IF IsNaN(x) \/ IsNaN(y) THEN NaN ELSE IF FLt(x, y) THEN y ELSE x

One == <<1, 1>>
Half == <<1, 2>>

\* The mean of the places, counted from 1, that the values equal to v take
\* in the sorted pool.
AverageRank(pool, v) ==
    Rat(Cardinality({i \in 1..Len(pool) : FLt(pool[i], v)}) + 1
          + Cardinality({i \in 1..Len(pool) : FLe(pool[i], v)}), 2)

RECURSIVE RankSum(_, _)
RankSum(pool, xs) ==
    IF xs = <<>> THEN <<0, 1>> ELSE FAdd(AverageRank(pool, Head(xs)), RankSum(pool, Tail(xs)))

\* R1 itself.
U1Ranks(x1, x2) == RankSum(x1 \o x2, x1)

\* U1 = R1 - n1(n1+1)/2
U1Of(x1, x2) == FSub(RankSum(x1 \o x2, x1), Rat(Len(x1) * (Len(x1) + 1), 2))

\* U2 = n1*n2 - U1
U2Of(x1, x2) == FSub(FromInt(Len(x1) * Len(x2)), U1Of(x1, x2))

UDistOf(x1, x2) == UDist(Len(x1), Len(x2), TieVector(Sort(x1 \o x2)))

Clip(P) == FMin(One, FMax(<<0, 1>>, P))

\* The p-value of the U-test from its distribution and its statistics.
UTestP(d, U1, U2, alt) ==
    CASE alt = LocationDiffers ->
           Clip(FMul(<<2, 1>>,
                     FMin(CDF(d, FMin(U1, U2)), FSub(One, CDF(d, FSub(FMin(U1, U2), Step(d)))))))
      [] alt = LocationLess -> CDF(d, U1)
      [] alt = LocationGreater -> FSub(One, CDF(d, FSub(U1, Step(d))))

\* The distribution is asked where makeUmemo panics.
UTestPanics(d) == hasTies(d) /\ makeUmemoPanics(d.T)

\* MannWhitneyUTest(x1, x2, alt), where it returns
MannWhitneyUTest(x1, x2, alt) ==
    IF UTestError(x1, x2) # NoError THEN [P |-> NaN, err |-> UTestError(x1, x2)]
    ELSE [P |-> UTestP(UDistOf(x1, x2), U1Of(x1, x2), U2Of(x1, x2), alt), err |-> NoError]

RECURSIVE SumSquares(_, _)
SumSquares(xs, m) ==
    IF xs = <<>> THEN <<0, 1>>
    ELSE FAdd(FMul(FSub(Head(xs), m), FSub(Head(xs), m)), SumSquares(Tail(xs), m))

\* The sample variance
Variance(xs) == FDiv(SumSquares(xs, Mean(xs)), FromInt(Len(xs) - 1))

\* s^2 / n
VarianceOfMean(xs) == FDiv(Variance(xs), FromInt(Len(xs)))

\* The sign of a float64: "nan" for NaN.
SignOf(x) ==
    IF IsNaN(x) THEN "nan"
    ELSE IF FLt(x, <<0, 1>>) THEN "neg"
    ELSE IF FLt(<<0, 1>>, x) THEN "pos"
    ELSE "zero"

\* Welch's T = (m1 - m2) / sqrt(s1^2/n1 + s2^2/n2), held as its sign and
\* its square, and the degrees of freedom of Welch and Satterthwaite.
WelchT(x1, x2) ==
    [sign |-> SignOf(FDiv(FSub(Mean(x1), Mean(x2)), FAdd(VarianceOfMean(x1), VarianceOfMean(x2)))),
     sq |-> FDiv(FMul(FSub(Mean(x1), Mean(x2)), FSub(Mean(x1), Mean(x2))),
                 FAdd(VarianceOfMean(x1), VarianceOfMean(x2))),
     dof |-> FDiv(FMul(FAdd(VarianceOfMean(x1), VarianceOfMean(x2)),
                       FAdd(VarianceOfMean(x1), VarianceOfMean(x2))),
                  FAdd(FDiv(FMul(VarianceOfMean(x1), VarianceOfMean(x1)), FromInt(Len(x1) - 1)),
                       FDiv(FMul(VarianceOfMean(x2), VarianceOfMean(x2)), FromInt(Len(x2) - 1))))]

\* The values betainc(x, a, b) can return: the regularized incomplete beta
\* function lies in [0, 1], is 0 at 0 and 1 at 1, and a NaN argument goes
\* through both comparisons to 1 - bt*betacf(NaN)/b.
BetaValues == {<<1, 100>>, <<1, 2>>, <<99, 100>>}

betainc(x, a, b) ==
    IF IsNaN(x) \/ IsNaN(a) THEN {NaN}
    ELSE IF x = <<0, 1>> THEN {<<0, 1>>}
    ELSE IF x = One THEN {One}
    ELSE BetaValues

\* tCDF{V}.At(x) for x of the sign and the square of t, I what betainc
\* returns.
tCDFAt(sign, I) ==
    CASE sign = "zero" -> Half
      [] sign = "pos" -> FSub(One, FMul(Half, I))
      [] sign = "neg" -> FSub(One, FSub(One, FMul(Half, I)))
      [] OTHER -> NaN

\* The smaller tail alone.
TTestPOneTail(F, alt) ==
    CASE alt = LocationDiffers -> FMin(F, FSub(One, F))
      [] alt = LocationLess -> F
      [] alt = LocationGreater -> FSub(One, F)

\* The p-value of a t-test from F = F_v(T).
TTestP(F, alt) ==
    CASE alt = LocationDiffers -> FMul(<<2, 1>>, FMin(F, FSub(One, F)))
      [] alt = LocationLess -> F
      [] alt = LocationGreater -> FSub(One, F)

\* The samples of the tests: small values in any order, and samples with
\* an infinite value that Metric keeps.
InfSamples == {Ints(s) \o <<PosInf>> : s \in SeqsUpTo({1, 2}, MaxSample - 1)}

TestSamples == SmallSamples \cup InfSamples

\* The samples of TestTTest.
TTestSamples == {Ints(<<2, 1, 3, 4>>), Ints(<<6, 5, 7, 9>>)}

InitTest ==
    /\ Idle
    /\ \E test \in {"notest", "ttest", "utest"}, x1 \in TestSamples \cup TTestSamples,
          x2 \in TestSamples \cup TTestSamples, alt \in Alternatives :
          /\ (x1 \in TTestSamples \/ x2 \in TTestSamples) =>
                test = "ttest" /\ x1 = Ints(<<2, 1, 3, 4>>) /\ x2 \in TTestSamples
          /\ test = "notest" => alt = LocationDiffers
          /\ call = [fn |-> test, x1 |-> x1, x2 |-> x2, alt |-> alt, at |-> "check",
                     t |-> [sign |-> "zero", sq |-> <<0, 1>>, dof |-> <<0, 1>>],
                     d |-> UDist(0, 0, <<>>), U1 |-> <<0, 1>>, U2 |-> <<0, 1>>,
                     returned |-> FALSE, panic |-> "", pval |-> NaN, err |-> NoError]

InTest(fn, at) == call.fn = fn /\ ~call.returned /\ call.panic = "" /\ call.at = at

ReturnP(pval, err) == call' = [call EXCEPT !.returned = TRUE, !.pval = pval, !.err = err]

\* notest
CallNotest ==
    /\ InTest("notest", "check")
    /\ ReturnP(<<-1, 1>>, NoError)
    /\ UNCHANGED mainVars

\* utest, MannWhitneyUTest up to its errors
UTestCheck ==
    /\ InTest("utest", "check")
    /\ IF UTestError(call.x1, call.x2) # NoError
       THEN ReturnP(<<-1, 1>>, UTestError(call.x1, call.x2))
       ELSE call' = [call EXCEPT !.at = "rank"]
    /\ UNCHANGED mainVars

\* The ranks, the statistics and the distribution
UTestRank ==
    /\ InTest("utest", "rank")
    /\ call' = [call EXCEPT !.d = UDistOf(call.x1, call.x2),
                            !.U1 = U1Of(call.x1, call.x2),
                            !.U2 = U2Of(call.x1, call.x2),
                            !.at = "p"]
    /\ UNCHANGED mainVars

\* The p-value, and utest's return of it
UTestReturn ==
    /\ InTest("utest", "p")
    /\ IF UTestPanics(call.d) THEN Panic("K < 2")
       ELSE ReturnP(UTestP(call.d, call.U1, call.U2, call.alt), NoError)
    /\ UNCHANGED mainVars

\* ttest, TwoSampleWelchTTest up to its errors
TTestCheck ==
    /\ InTest("ttest", "check")
    /\ IF WelchError(call.x1, call.x2) # NoError
       THEN ReturnP(<<-1, 1>>, WelchError(call.x1, call.x2))
       ELSE call' = [call EXCEPT !.at = "t"]
    /\ UNCHANGED mainVars

\* T and the degrees of freedom
TTestT ==
    /\ InTest("ttest", "t")
    /\ call' = [call EXCEPT !.t = WelchT(call.x1, call.x2), !.at = "p"]
    /\ UNCHANGED mainVars

\* The p-value from tCDF.At, and ttest's return of it
TTestReturn ==
    /\ InTest("ttest", "p")
    /\ \E I \in betainc(FDiv(call.t.dof, FAdd(call.t.dof, call.t.sq)), FMul(call.t.dof, Half), Half) :
          ReturnP(TTestP(tCDFAt(call.t.sign, I), call.alt), NoError)
    /\ UNCHANGED mainVars

NextTest ==
    \/ CallNotest
    \/ UTestCheck
    \/ UTestRank
    \/ UTestReturn
    \/ TTestCheck
    \/ TTestT
    \/ TTestReturn

SpecTest == InitTest /\ [][NextTest]_vars

(***************************************************************************)
(* bisect.  The float64 between low and high are the integers of a grid,   *)
(* so that the mean of two neighbours is rounded to one of them; f is any   *)
(* function on the grid.  The package has sign in two versions: that of    *)
(* int result counts NaN as positive, that of float64 result returns NaN.  *)
(***************************************************************************)
\* sign(x) with an int result
sign(x) == IF FEq(x, <<0, 1>>) THEN 0 ELSE IF FLt(x, <<0, 1>>) THEN -1 ELSE 1

\* sign(x) with a float64 result
signFloat(x) ==
    IF FEq(x, <<0, 1>>) THEN <<0, 1>>
    ELSE IF FLt(x, <<0, 1>>) THEN <<-1, 1>>
    ELSE IF FLt(<<0, 1>>, x) THEN One
    ELSE NaN

\* No two values count as of the same sign.
sameSignNever(version, a, b) == FALSE

\* sign(a) == sign(b)
sameSign(version, a, b) ==
    IF version = "int" THEN sign(a) = sign(b) ELSE FEq(signFloat(a), signFloat(b))

\* Every value counts as within the tolerance.
withinAlways(y, tolerance) == TRUE

\* -tolerance <= y && y <= tolerance
within(y, tolerance) == FLe(FNeg(tolerance), y) /\ FLe(y, tolerance)

\* (high + low) / 2, a half rounded to the even neighbour
midpoint(low, high) ==
    IF (high + low) % 2 = 0 THEN (high + low) \div 2
    ELSE IF ((high + low) \div 2) % 2 = 0 THEN (high + low) \div 2
    ELSE (high + low) \div 2 + 1

GridValues == {<<-2, 1>>, <<-1, 1>>, <<0, 1>>, <<2, 1>>, NaN}
Tolerances == {<<-1, 1>>, <<0, 1>>, One}

InitBisect ==
    /\ Idle
    /\ \E f \in [0..MaxGrid -> GridValues], low \in 0..MaxGrid, high \in 0..MaxGrid,
          tolerance \in Tolerances, version \in {"int", "float"} :
          /\ low <= high
          /\ call = [fn |-> "bisect", version |-> version, f |-> f, low0 |-> low, high0 |-> high,
                     tolerance |-> tolerance, low |-> low, high |-> high,
                     flow |-> NaN, fhigh |-> NaN, mid |-> low, at |-> "entry", turns |-> 0,
                     returned |-> FALSE, panic |-> "", x |-> low, ok |-> FALSE]

InBisect(at) == call.fn = "bisect" /\ ~call.returned /\ call.panic = "" /\ call.at = at

ReturnX(x, ok) == [call EXCEPT !.returned = TRUE, !.x = x, !.ok = ok]

\* bisect up to its loop
bisectEntry ==
    /\ InBisect("entry")
    /\ call' =
         IF within(call.f[call.low], call.tolerance) THEN ReturnX(call.low, TRUE)
         ELSE IF within(call.f[call.high], call.tolerance) THEN ReturnX(call.high, TRUE)
         ELSE IF sameSign(call.version, call.f[call.low], call.f[call.high])
         THEN [call EXCEPT !.panic = "root of f is not bracketed by [low, high]"]
         ELSE [call EXCEPT !.flow = call.f[call.low], !.fhigh = call.f[call.high],
                           !.at = "loop"]
    /\ UNCHANGED mainVars

\* The turn of the loop with the midpoint mid
bisectTurn(mid) ==
    IF within(call.f[mid], call.tolerance) THEN ReturnX(mid, TRUE)
    ELSE IF mid = call.high \/ mid = call.low THEN ReturnX(mid, FALSE)
    ELSE IF sameSign(call.version, call.f[mid], call.flow)
    THEN [call EXCEPT !.low = mid, !.flow = call.f[mid], !.mid = mid, !.turns = call.turns + 1]
    ELSE [call EXCEPT !.high = mid, !.fhigh = call.f[mid], !.mid = mid, !.turns = call.turns + 1]

bisectLoop ==
    /\ InBisect("loop")
    /\ call' = [bisectTurn(midpoint(call.low, call.high)) EXCEPT
                  !.mid = midpoint(call.low, call.high)]
    /\ UNCHANGED mainVars

NextBisect == bisectEntry \/ bisectLoop

SpecBisect == InitBisect /\ [][NextBisect]_vars

\* The loop goes on as long as it can.
SpecBisectFair == SpecBisect /\ WF_vars(NextBisect)

(***************************************************************************)
(* A caller that owns a UDist d and a Benchmark b and calls d.CDF, d.PMF   *)
(* and b.Metric one after the other.  seen holds what the calls returned.  *)
(***************************************************************************)
CallDists == {d \in UDists : d.N1 \in 1..2 /\ d.N2 \in 1..2}

RunOf(v) == [N |-> S_1, M |-> <<[Name |-> S_timeop, Unit |-> S_nsop, Val |-> FromInt(v)]>>]

BenchmarkOf(vs) == [Name |-> <<"A">>, Runs |-> [i \in 1..Len(vs) |-> RunOf(vs[i])]]

CallBenchmarks == {BenchmarkOf(vs) : vs \in {<<2, 1>>, <<9, 1, 2>>, <<1, 1, 1, 1, 9>>}}

InitCalls ==
    /\ Idle
    /\ \E d \in CallDists, b \in CallBenchmarks :
          call = [fn |-> "calls", d |-> d, b |-> b, d0 |-> d, b0 |-> b, seen |-> {}, made |-> 0]

CDFPanics(d, U) ==
    /\ ~CDFBelow(U) /\ ~CDFAbove(d, U)
    /\ IF hasTies(d) THEN makeUmemoPanics(d.T) ELSE flipped(d, Floor(U)) < 0

PMFPanics(d, U) == ~PMFOutside(d, U) /\ hasTies(d) /\ makeUmemoPanics(d.T)

Outcome(panics, v) == IF panics THEN [panic |-> TRUE] ELSE [panic |-> FALSE, result |-> v]

\* A call that leaves N1 and N2 exchanged and the runs without their first.
CalledWriting(fn, arg, out) ==
    call' = [call EXCEPT !.seen = @ \cup {[fn |-> fn, arg |-> arg, out |-> out]},
                         !.made = @ + 1,
                         !.d = UDist(@.N2 + 1, @.N1, @.T),
                         !.b.Runs = Tail(@)]

\* What a call leaves behind: the receiver d is a copy and nothing is
\* assigned to d.T or to b.Runs, so the caller has its result and no more.
Called(fn, arg, out) ==
    call' = [call EXCEPT !.seen = @ \cup {[fn |-> fn, arg |-> arg, out |-> out]},
                         !.made = @ + 1]

CanCall == call.fn = "calls" /\ call.made < MaxCalls

CallCDF ==
    /\ CanCall
    /\ \E U \in HalfIntegers(call.d) :
          Called("CDF", U, Outcome(CDFPanics(call.d, U), CDF(call.d, U)))
    /\ UNCHANGED mainVars

CallPMF ==
    /\ CanCall
    /\ \E U \in HalfIntegers(call.d) :
          Called("PMF", U, Outcome(PMFPanics(call.d, U), PMF(call.d, U)))
    /\ UNCHANGED mainVars

CallMetric ==
    /\ CanCall
    /\ \E name \in {S_timeop, S_allocop} :
          Called("Metric", name, Outcome(FALSE, Metric(Some(call.b), name)))
    /\ UNCHANGED mainVars

NextCalls == CallCDF \/ CallPMF \/ CallMetric

SpecCalls == InitCalls /\ [][NextCalls]_vars

(***************************************************************************)
(* Floors of package stats.                                                *)
(***************************************************************************)
\* int(x) of a finite float64: the fraction is dropped, toward zero.
Floors(xs) == [i \in 1..Len(xs) |-> TruncInt(xs[i])]

FloorsValues == {<<-3, 2>>, <<-1, 1>>, <<-1, 2>>, <<0, 1>>, <<1, 2>>, <<3, 2>>}

InitFloors ==
    /\ Idle
    /\ \E xs \in SeqsUpTo(FloorsValues, MaxSample) :
          call = [fn |-> "Floors", xs |-> xs, returned |-> FALSE, res |-> <<>>]

CallFloors ==
    /\ call.fn = "Floors" /\ ~call.returned
    /\ call' = [call EXCEPT !.returned = TRUE, !.res = Floors(call.xs)]
    /\ UNCHANGED mainVars

NextFloors == CallFloors

SpecFloors == InitFloors /\ [][NextFloors]_vars

(***************************************************************************)
(* twoUmin and twoUmax, called for a prefix of a tie vector.               *)
(***************************************************************************)
TwoUVectors == UNION {TieVectors(n) : n \in 1..(2 * MaxSample)}

InitTwoU ==
    /\ Idle
    /\ \E t \in TwoUVectors :
          \E K \in 1..Len(t) :
             \E n1 \in 0..sumint(SubSeq(t, 1, K)) :
                call = [fn |-> "twoU", K |-> K, n1 |-> n1, t |-> t, a |-> aCoefficients(t),
                        min |-> Nil, max |-> Nil]

CallTwoUmin ==
    /\ call.fn = "twoU" /\ IsNil(call.min)
    /\ call' = [call EXCEPT !.min = Some(twoUmin(call.K, call.n1, call.t, call.a))]
    /\ UNCHANGED mainVars

CallTwoUmax ==
    /\ call.fn = "twoU" /\ IsNil(call.max)
    /\ call' = [call EXCEPT !.max = Some(twoUmax(call.K, call.n1, call.t, call.a))]
    /\ UNCHANGED mainVars

NextTwoU == CallTwoUmin \/ CallTwoUmax

SpecTwoU == InitTwoU /\ [][NextTwoU]_vars

(***************************************************************************)
(* makeUmemo, one level of its two passes at a time.  pr maps a level to   *)
(* its map; read holds the keys of pr[k-1] that the last fill looked up.   *)
(***************************************************************************)
ZeroMap(keys) == [key \in keys |-> <<0, 1>>]

With(pr, k, m) == [l \in DOMAIN pr \cup {k} |-> IF l = k THEN m ELSE pr[l]]

\* The keys of pr[k-1] that the fill of pr[k] looks up.
prReads(k, keys, t, a) ==
    {key \in UNION {{keyBelow(above, rk, a[k])
                        : rk \in rkRange(above, sumint(SubSeq(t, 1, k - 1)), t[k])}
                    : above \in keys}
        : inBounds(k - 1, key, t, a)}

InitUmemo ==
    /\ Idle
    /\ \E d \in {u \in UDists : hasTies(u)} :
          \E twoU \in (0 - 1)..(2 * N1N2(d)) :
             call = [fn |-> "makeUmemo", twoU |-> twoU, n1 |-> d.N1, t |-> d.T,
                     a |-> aCoefficients(d.T), K |-> Len(d.T), k |-> Len(d.T) - 1,
                     pr |-> With(<<>>, Len(d.T), ZeroMap({ukey(d.N1, twoU)})),
                     read |-> {}, at |-> "down", returned |-> FALSE, panic |-> ""]

InUmemo(at) == call.fn = "makeUmemo" /\ ~call.returned /\ call.panic = "" /\ call.at = at

\* for k := K - 1; k >= 2; k--
umemoDown ==
    /\ InUmemo("down")
    /\ IF call.k >= 2
       THEN call' = [call EXCEPT
                !.pr = With(@, call.k,
                            ZeroMap({key \in keysBelow(call.k, DOMAIN call.pr[call.k + 1],
                                                       call.t, call.a)
                                        : inBounds(call.k, key, call.t, call.a)})),
                !.k = @ - 1]
       ELSE call' = [call EXCEPT !.at = "base"]
    /\ UNCHANGED mainVars

\* The base case K == 2
umemoBase ==
    /\ InUmemo("base")
    /\ IF call.K < 2 THEN call' = [call EXCEPT !.panic = "K < 2"]
       ELSE call' = [call EXCEPT
                !.pr = With(@, 2, [key \in DOMAIN call.pr[2] |-> prBase(key, call.t)]),
                !.k = 3, !.at = "up"]
    /\ UNCHANGED mainVars

\* for k := 3; k <= K; k++
umemoUp ==
    /\ InUmemo("up")
    /\ IF call.k <= call.K
       THEN call' = [call EXCEPT
                !.pr = With(@, call.k, prAbove(call.k, DOMAIN call.pr[call.k],
                                               call.pr[call.k - 1], call.t, call.a)),
                !.read = prReads(call.k, DOMAIN call.pr[call.k], call.t, call.a),
                !.k = @ + 1]
       ELSE call' = [call EXCEPT !.returned = TRUE]
    /\ UNCHANGED mainVars

NextUmemo == umemoDown \/ umemoBase \/ umemoUp

SpecUmemo == InitUmemo /\ [][NextUmemo]_vars

(***************************************************************************)
(* The claims.                                                             *)
(***************************************************************************)
\* The rows of all tables below their headings, in order.
DataRows(tbls) == Flatten([t \in 1..Len(tbls) |-> Tail(tbls[t])])

\* main has returned.
Done == pc = "done"

\* C1: when main has returned, standard output holds every table in order,
\* tables separated by an empty line: with -html each as an HTML table
\* (<table class='benchstat'>, the heading in th cells, the data rows in td
\* cells), without it each as text.
C1_Output ==
    Done =>
        stdout = Flatten([i \in 1..Len(tables) |->
                     (IF i > 1 THEN <<Newline>> ELSE <<>>)
                     \o (IF flagHTML THEN HTMLTable(tables[i]) ELSE TextTable(tables[i]))])

\* C1, what the program does: with -html, standard output holds nothing
\* but the separators, one for every table after the first.
C1_HTMLDropped ==
    Done /\ flagHTML => stdout = [i \in 1..Len(tables) - 1 |-> Newline]

C1_HTMLRun == Done /\ flagHTML /\ Len(tables) = 2 /\ Len(stdout) = 1


\* The rows case 2 has built so far, one for every call of deltaTest.
RowsSoFar == DataRows(tables) \o table

\* C2: in case 2 every row's delta cell is the signed percent change
\* ((new mean / old mean) - 1) * 100 exactly when the test gave no error and
\* p <= 0.05, and "~" otherwise; and when a test was run and gave no error
\* the row ends with (p=... n=a+b), a and b the sizes of the two samples
\* that were tested.
C2_Delta ==
    Len(groups) = 2 =>
        /\ Len(RowsSoFar) = Len(tests)
        /\ \A i \in 1..Len(tests) :
              /\ RowsSoFar[i][4] =
                    IF tests[i].err = NoError /\ FLe(tests[i].pval, <<5, 100>>)
                    THEN [k |-> "pct",
                          pct |-> FormatFloat(FMul(FSub(FDiv(Mean(tests[i].new),
                                                             Mean(tests[i].old)),
                                                        <<1, 1>>), <<100, 1>>), 2)]
                    ELSE Lit("~   ")
              /\ deltaTest # "notest" /\ tests[i].err = NoError =>
                    /\ Len(RowsSoFar[i]) = 5
                    /\ RowsSoFar[i][5] = [k |-> "pn", p |-> FormatFloat(tests[i].pval, 3),
                                         n1 |-> Len(tests[i].old), n2 |-> Len(tests[i].new)]

\* A significant difference of a test that was run.
C2_Significant ==
    /\ Done
    /\ \E i \in 1..Len(tests) :
          /\ deltaTest = "utest"
          /\ tests[i].err = NoError
          /\ tests[i].pval = <<1, 20>>
          /\ RowsSoFar[i][4].k = "pct"
          /\ RowsSoFar[i][5].k = "pn"

\* The names -delta-test takes, and the name the command line gives it.
KnownTests == {S_none, S_u, S_u_test, S_utest, S_t, S_t_test, S_ttest}
TestGiven(a) == ToLower(IF IsNil(a.deltaTest) THEN S_utest ELSE Deref(a.deltaTest))

\* A command line the program answers with its usage message: no file, a
\* -delta-test it does not know, or a flag it does not define.
BadCommand(a) == a.files < 1 \/ TestGiven(a) \notin KnownTests \/ ~IsNil(a.alpha)

\* C3: the process exits with status 2 on a usage error (no input file or
\* an unrecognised -delta-test), before any file is read, and with status 0
\* in every other case.
C3_ExitCode ==
    exit # Running =>
        \/ exit = 2 /\ BadCommand(argv) /\ groups = <<>>
        \/ exit = 0 /\ ~BadCommand(argv)

\* C3 as the program has it: a usage error makes the next step the exit
\* with status 2, before any file is read; the process also exits with
\* status 2 when main panics while it builds the tables of more than two
\* files, with status 1 when a file cannot be read, and with status 0 when
\* main returns, after all files were read and the tables written.
C3_ExitCodes ==
    [][/\ pc = "flags" /\ BadCommand(argv) => exit' = 2 /\ groups' = <<>>
       /\ pc = "flags" /\ ~BadCommand(argv) => exit' = Running
       /\ exit' # Running =>
             \/ exit' = 2 /\ BadCommand(argv') /\ groups' = <<>>
             \/ exit' = 2 /\ pc' = "panic" /\ Len(groups') > 2 /\ stdout' = <<>>
             \/ exit' = 1 /\ pc' = "fatal" /\ Len(groups') < argv'.files /\ stdout' = <<>>
             \/ exit' = 0 /\ pc' = "done" /\ Len(groups') = argv'.files]_vars

\* A file could not be read.
C3_Fatal == exit = 1 /\ Len(groups) = 1 /\ argv.files = 2

\* C5: the threshold of significance is the value of the -alpha flag, 0.05
\* when the flag is not given: a command line with -alpha is not a usage
\* error, and a row shows the percent change exactly when its test gave no
\* error and p <= alpha.
C5_Alpha ==
    /\ pc = "usage" => argv.files < 1 \/ TestGiven(argv) \notin KnownTests
    /\ \A i \in 1..Len(tests) :
          RowsSoFar[i][4].k = "pct"
          <=> /\ tests[i].err = NoError
              /\ FLe(tests[i].pval, IF IsNil(argv.alpha) THEN <<5, 100>> ELSE Deref(argv.alpha))

\* C5 as the program has it: the threshold is the constant 0.05, whatever
\* the command line; the program defines no -alpha flag, and a command line
\* that gives one gets the usage message and reads no file.
C5_Threshold ==
    /\ ~IsNil(argv.alpha) => pc \in {"flags", "usage"} /\ groups = <<>>
    /\ pc = "usage" => exit = 2
    /\ \A i \in 1..Len(tests) :
          RowsSoFar[i][4].k = "pct"
          <=> tests[i].err = NoError /\ FLe(tests[i].pval, <<5, 100>>)

\* A difference with p = 0.05 is shown.
C5_AtThreshold ==
    /\ Done
    /\ \E i \in 1..Len(tests) :
          tests[i].err = NoError /\ tests[i].pval = <<1, 20>> /\ RowsSoFar[i][4].k = "pct"

\* C6: -delta-test takes exactly the names none, u, u-test, utest, t,
\* t-test, ttest, in any case of the letters, and utest when it is not
\* given; with none no test is run: every compared benchmark shows its
\* percent change and no row has the (p=... n=...) text.
C6_DeltaTest ==
    [][/\ pc = "flags" /\ IsNil(argv.alpha) /\ argv.files >= 1 =>
             /\ exit' = 2 <=> TestGiven(argv) \notin KnownTests
             /\ TestGiven(argv) = S_none => deltaTest' = "notest"
             /\ TestGiven(argv) \in {S_u, S_u_test, S_utest} => deltaTest' = "utest"
             /\ TestGiven(argv) \in {S_t, S_t_test, S_ttest} => deltaTest' = "ttest"
       /\ deltaTest' = "notest" =>
             \A i \in 1..Len(tests') :
                /\ tests'[i].pval = <<-1, 1>> /\ tests'[i].err = NoError
                /\ Len(RowsSoFar'[i]) = 4
                /\ RowsSoFar'[i][4].k = "pct"]_vars

\* A comparison made with -delta-test none.
C6_None == Done /\ deltaTest = "notest" /\ Len(tests) = 1 /\ Len(RowsSoFar[1]) = 4

\* C4: a test that fails is shown in its row as "~" followed by the text
\* "zero variance", "too few samples" or "all equal", for the three errors
\* a test can give.
C4_Original ==
    Len(groups) = 2 =>
        \A i \in 1..Len(tests) :
           tests[i].err # NoError =>
              /\ Len(RowsSoFar[i]) = 5
              /\ RowsSoFar[i][4] = Lit("~   ")
              /\ RowsSoFar[i][5] =
                    CASE tests[i].err = ErrZeroVariance -> Lit("zero variance")
                      [] tests[i].err = ErrSampleSize -> Lit("too few samples")
                      [] tests[i].err = ErrSamplesEqual -> Lit("all equal")

\* C4 as the program has it: the row of a failed test is "~" followed by
\* "zero variance", by "too few samples", or, for the error of samples
\* that are all equal, by the text of the error in parentheses,
\* "(all samples are equal)".
C4_ErrorText ==
    Len(groups) = 2 =>
        \A i \in 1..Len(tests) :
           tests[i].err # NoError =>
              /\ Len(RowsSoFar[i]) = 5
              /\ RowsSoFar[i][4] = Lit("~   ")
              /\ RowsSoFar[i][5] =
                    CASE tests[i].err = ErrZeroVariance -> Lit("zero variance")
                      [] tests[i].err = ErrSampleSize -> Lit("too few samples")
                      [] tests[i].err = ErrSamplesEqual ->
                            [k |-> "err", t |-> "all samples are equal"]

\* Each of the three errors has been shown in a row.
C4_SamplesEqual ==
    /\ Done
    /\ \E i \in 1..Len(tests) :
          tests[i].err = ErrSamplesEqual /\ RowsSoFar[i][5].k = "err"

C4_TooFew ==
    /\ Done
    /\ \E i \in 1..Len(tests) :
          tests[i].err = ErrSampleSize /\ RowsSoFar[i][5] = Lit("too few samples")

C4_ZeroVariance ==
    /\ Done
    /\ \E i \in 1..Len(tests) :
          tests[i].err = ErrZeroVariance /\ RowsSoFar[i][5] = Lit("zero variance")

\* The (value, unit) pairs of the fields of a line, after the name and the
\* iteration count.
Pairs(f) == [i \in 1..((Len(f) - 2) \div 2) |-> [value |-> f[2 * i + 1], unit |-> f[2 * i + 2]]]

Parsable(pair) == ~ParseFloat(pair.value).err

\* A decimal integer other than 0, with an optional sign.
NonZeroInteger(s) ==
    IsDigits(Unsigned(s)) /\ \E i \in 1..Len(Unsigned(s)) : Unsigned(s)[i] # "0"

\* The lines C9 says add a run.
Counted(f) ==
    /\ Len(f) >= 4
    /\ HasPrefix(f[1], S_Benchmark)
    /\ NonZeroInteger(f[2])
    /\ \E i \in 1..Len(Pairs(f)) : Parsable(Pairs(f)[i])

\* The metric C9 says a pair is recorded as.
Recorded(pair) ==
    [Name |-> CASE pair.unit = <<"n","s","/","o","p">> -> <<"t","i","m","e","/","o","p">>
                [] pair.unit = <<"B","/","o","p">> -> <<"a","l","l","o","c","/","o","p">>
                [] pair.unit = <<"M","B","/","s">> -> <<"s","p","e","e","d">>
                [] OTHER -> pair.unit,
     Unit |-> pair.unit,
     Val |-> ParseFloat(pair.value).val]

RecordedOf(pairs) == [i \in 1..Len(pairs) |-> Recorded(pairs[i])]

RecordedRun(f) == RecordedOf(SelectSeq(Pairs(f), Parsable))

\* Benchmarks bs2 is benchmarks bs with one more run, of metrics ms, in the
\* benchmark called name, which is new and last when bs has none of that
\* name; every other benchmark is as it was.
OneMoreRun(bs, bs2, name, ms) ==
    /\ \A b \in 1..Len(bs) :
          /\ b <= Len(bs2)
          /\ bs2[b].Name = bs[b].Name
          /\ bs[b].Name # name => bs2[b] = bs[b]
          /\ bs[b].Name = name =>
                /\ Len(bs2) = Len(bs)
                /\ Len(bs2[b].Runs) = Len(bs[b].Runs) + 1
                /\ SubSeq(bs2[b].Runs, 1, Len(bs[b].Runs)) = bs[b].Runs
                /\ bs2[b].Runs[Len(bs2[b].Runs)].M = ms
    /\ (\A b \in 1..Len(bs) : bs[b].Name # name) =>
          /\ Len(bs2) = Len(bs) + 1
          /\ bs2[Len(bs2)].Name = name
          /\ Len(bs2[Len(bs2)].Runs) = 1
          /\ bs2[Len(bs2)].Runs[1].M = ms

ReadsLine(f, g, g2) ==
    IF Counted(f)
    THEN OneMoreRun(g.Benchmarks, g2.Benchmarks, TrimPrefix(f[1], S_Benchmark), RecordedRun(f))
    ELSE g2 = g

\* C9: readFile never fails on the content of a line: a line adds exactly
\* one run to exactly one benchmark when it has at least 4 fields, its first
\* field starts with "Benchmark", its second field is a non-zero integer and
\* at least one (value, unit) pair has a value that parses; every other line
\* changes nothing.  The units ns/op, B/op and MB/s are recorded as the
\* metrics time/op, alloc/op and speed, any other unit under its own name.
C9_ReadLine ==
    [][pc = "read" /\ lines # <<>> /\ Len(groups) = 1 /\ Len(input) = 1 =>
          /\ pc' = "read"
          /\ exit' = Running
          /\ ReadsLine(Fields(Head(lines)), groups[1], groups'[1])]_vars

\* A file has been read in which one line gave a run with an alloc/op
\* metric and another line was ignored.
C9_Read ==
    /\ pc = "read"
    /\ lines = <<>>
    /\ Len(groups) = 1
    /\ Len(groups[1].Benchmarks) = 1
    /\ Len(groups[1].Benchmarks[1].Runs) = 1
    /\ \E i \in 1..Len(groups[1].Benchmarks[1].Runs[1].M) :
          /\ groups[1].Benchmarks[1].Runs[1].M[i].Name = S_allocop
          /\ groups[1].Benchmarks[1].Runs[1].M[i].Unit = S_Bop
    /\ Len(Split(input[1], "\n")) = 3

\* All values of a metric that a group holds for the benchmark called name,
\* in the order of the file.
MetricsIn(g, name) ==
    Flatten([b \in 1..Len(g.Benchmarks) |->
                IF g.Benchmarks[b].Name = name THEN RunsMetrics(g.Benchmarks[b]) ELSE <<>>])

ValuesIn(g, name, metric) ==
    ValuesOf(SelectSeq(MetricsIn(g, name), LAMBDA m : m.Name = metric))

\* The values within 1.5 interquartile ranges of the quartiles q1 and q3.
Within(q1, q3, v) ==
    /\ FLe(FSub(q1, FMul(<<3, 2>>, FSub(q3, q1))), v)
    /\ FLe(v, FAdd(q3, FMul(<<3, 2>>, FSub(q3, q1))))

KeptOf(values) ==
    SelectSeq(values,
              LAMBDA v : Within(Percentile(values, <<1, 4>>), Percentile(values, <<3, 4>>), v))

\* The statistics of the kept values, and the cell that shows them in the
\* scale of the statistics first.
StatOver(metric, unit, kept) ==
    [Name |-> metric, Unit |-> unit, Min |-> Bounds(kept).min, Max |-> Bounds(kept).max,
     Mean |-> Mean(kept)]

StatCell(metric, kept, first) ==
    Format(StatOver(metric, S_nsop, kept), Scaler(StatOver(metric, S_nsop, first)))

\* What C10 says of one call of the test and its row.
KeptInCall(c, row, old, new) ==
    /\ c.old = KeptOf(old)
    /\ c.new = KeptOf(new)
    /\ row[2] = StatCell(c.metric, KeptOf(old), KeptOf(old))
    /\ row[3] = StatCell(c.metric, KeptOf(new), KeptOf(old))
    /\ \A j \in 1..Len(row) :
          row[j].k = "pn" => row[j].n1 = Len(KeptOf(old)) /\ row[j].n2 = Len(KeptOf(new))

\* What C10 says of a row of the table of one file.
KeptInRow(metric, row, values) ==
    row[2] = StatCell(metric, KeptOf(values), KeptOf(values))

\* C10: Benchmark.Metric keeps exactly the values v with
\* Q1 - 1.5*(Q3-Q1) <= v <= Q3 + 1.5*(Q3-Q1), Q1 and Q3 the 0.25 and 0.75
\* percentiles of all values of the metric, in their original order; Min,
\* Max and Mean, which the statistic cells show, are those of the kept
\* values; the samples passed to the test, and the sizes printed as n=a+b,
\* are the kept values and their numbers.
C10_Outliers ==
    /\ Len(groups) = 2 =>
          \A i \in 1..Len(tests) :
             KeptInCall(tests[i], RowsSoFar[i],
                        ValuesIn(groups[1], tests[i].name, tests[i].metric),
                        ValuesIn(groups[2], tests[i].name, tests[i].metric))
    /\ Len(groups) = 1 =>
          \A t \in 1..Len(tables) : \A r \in 2..Len(tables[t]) :
             KeptInRow(tables[t][1][2].s, tables[t][r],
                       ValuesIn(groups[1], tables[t][r][1].s, tables[t][1][2].s))

\* A test was run on a sample of four values kept out of five, and its row
\* shows n=4+...
C10_Dropped ==
    /\ Done
    /\ \E i \in 1..Len(tests) :
          /\ Len(ValuesIn(groups[1], tests[i].name, tests[i].metric)) = 5
          /\ Len(tests[i].old) = 4
          /\ Len(RowsSoFar[i]) = 5
          /\ RowsSoFar[i][5].k = "pn"
          /\ RowsSoFar[i][5].n1 = 4

\* The fields of the lines of a file that add a run, in order; the names
\* of their benchmarks in the order of first appearance; and whether some
\* line of the file gives the benchmark called name the metric.
CountedOf(ls) == SelectSeq([l \in 1..Len(ls) |-> Fields(ls[l])], Counted)

CountedLines(text) == CountedOf(Split(text, "\n"))

NamesOfLines(fs) == Dedup([i \in 1..Len(fs) |-> TrimPrefix(fs[i][1], S_Benchmark)], {})

NamesOf(text) == NamesOfLines(CountedLines(text))

GivesMetric(f, name, metric) ==
    /\ TrimPrefix(f[1], S_Benchmark) = name
    /\ \E i \in 1..Len(RecordedRun(f)) : RecordedRun(f)[i].Name = metric

HasMetricAmong(fs, name, metric) == \E l \in 1..Len(fs) : GivesMetric(fs[l], name, metric)

\* The names in the first column of a table, below the heading, and the
\* metric of the table.
NameColumn(tbl) == [r \in 1..Len(tbl) - 1 |-> tbl[r + 1][1].s]
TableMetric(tbl) == tbl[1][2].s

\* What C8 says of one table: its names are names of the first file in
\* the order of that file, none twice, and with two files every one of
\* them has the metric in both files.
InOrder(names, all) ==
    names = SelectSeq(all, LAMBDA n : \E r \in 1..Len(names) : names[r] = n)

BothHave(names, metric, fs1, fs2) ==
    \A r \in 1..Len(names) :
       HasMetricAmong(fs1, names[r], metric) /\ HasMetricAmong(fs2, names[r], metric)

RowsInOrder(names, metric, texts) ==
    /\ InOrder(names, NamesOf(texts[1]))
    /\ Len(texts) = 2 => BothHave(names, metric, CountedLines(texts[1]), CountedLines(texts[2]))

\* C8: with one file and with two, the rows of every table list the
\* benchmarks in the order of their first appearance in the first file,
\* each name at most once in a table; with two files only a benchmark that
\* is in both files, with the metric in both, has a row.
C8_RowOrder ==
    pc \in {"print", "done"} /\ Len(groups) <= 2 =>
        \A t \in 1..Len(tables) :
           RowsInOrder(NameColumn(tables[t]), TableMetric(tables[t]), input)

\* A table of two files in which BenchmarkB comes before BenchmarkA, as in
\* the first file, while the second file has them the other way round.
C8_Swapped ==
    /\ Done
    /\ Len(groups) = 2
    /\ Len(tables) = 1
    /\ NameColumn(tables[1]) = <<<<"B">>, <<"A">>>>
    /\ NamesOf(input[2]) = <<<<"A">>, <<"B">>>>

\* The metrics of all groups, and the benchmarks that have a metric in
\* some group.
MetricsOfAll(gs) == UNION {{Metrics(gs[g])[m] : m \in 1..Len(Metrics(gs[g]))} : g \in 1..Len(gs)}

HasMetric(g, name, metric) == ValuesIn(g, name, metric) # <<>>

BenchmarksWith(gs, metric) ==
    {name \in UNION {{gs[g].Benchmarks[b].Name : b \in 1..Len(gs[g].Benchmarks)} :
                        g \in 1..Len(gs)} :
        \E g \in 1..Len(gs) : HasMetric(gs[g], name, metric)}

\* The rows of a table for the benchmark called name.
RowsOf(tbl, name) == {r \in 2..Len(tbl) : tbl[r][1] = Str(name)}

\* A row shows a statistic in the column of exactly the groups that have
\* the metric for the benchmark.
ShowsEachFile(row, gs, name, metric) ==
    \A g \in 1..Len(gs) :
       IF HasMetric(gs[g], name, metric)
       THEN Len(row) >= g + 1 /\ row[g + 1].k = "stat"
       ELSE Len(row) < g + 1 \/ IsEmpty(row[g + 1])

\* C7: with more than two files each metric gets one table, with one
\* column of statistics for every file and no column for the delta or the
\* significance, and every benchmark that has the metric in any of the
\* files has exactly one row in it, which shows each file's statistic in
\* the column of the file.
C7_Original ==
    Len(groups) > 2 /\ pc \in {"print", "done", "panic"} =>
        /\ \A metric \in MetricsOfAll(groups) :
              Cardinality({t \in 1..Len(tables) : tables[t][1][1] = Cat("name \\ ", metric)}) = 1
        /\ \A t \in 1..Len(tables) :
              /\ Len(tables[t][1]) = Len(groups) + 1
              /\ \A g \in 1..Len(groups) : tables[t][1][g + 1] = Lit(groups[g].File)
              /\ \A name \in BenchmarksWith(groups, tables[t][1][1].s) :
                    /\ Cardinality(RowsOf(tables[t], name)) = 1
                    /\ \A r \in RowsOf(tables[t], name) :
                          ShowsEachFile(tables[t][r], groups, name, tables[t][1][1].s)

\* The tables of three files were written, and a benchmark that has the
\* metric of a table in the second file has no row in it.
C7_RowMissing ==
    /\ Done
    /\ Len(groups) = 3
    /\ Len(tables) = 1
    /\ \E name \in BenchmarksWith(groups, tables[1][1][1].s) :
          /\ HasMetric(groups[2], name, tables[1][1][1].s)
          /\ RowsOf(tables[1], name) = {}

\* A call of Percentile has returned.
PercentileReturned == call # Nil /\ call.fn = "Percentile" /\ call.returned

\* The values TestSamplePercentile expects of its sample.
ExpectedPercentiles ==
    {<<<<1, 20>>, <<15, 1>>>>, <<<<3, 10>>, <<59, 3>>>>, <<<<2, 5>>, <<27, 1>>>>,
     <<<<19, 20>>, <<50, 1>>>>}

\* The minimum for p <= 0, the maximum for p >= 1, and a value between
\* them for every p.
PercentileInBounds(xs, q, v) ==
    /\ FLe(q, <<0, 1>>) => v = Bounds(xs).min
    /\ FLe(<<1, 1>>, q) => v = Bounds(xs).max
    /\ FLe(Bounds(xs).min, v) /\ FLe(v, Bounds(xs).max)

GivesExpected(xs, q, v) ==
    xs = TestSample => \A e \in ExpectedPercentiles : e[1] = q => v = e[2]

RECURSIVE MannWhitney(_, _, _)
MannWhitney(n, m, U) ==
    IF U < 0 THEN <<0, 1>>
    ELSE IF n = 0 \/ m = 0 THEN (IF U = 0 THEN <<1, 1>> ELSE <<0, 1>>)
    ELSE FDiv(FAdd(FMul(FromInt(n), MannWhitney(n - 1, m, U - m)),
                   FMul(FromInt(m), MannWhitney(n, m - 1, U))),
              FromInt(n + m))

\* The places the N1 elements of the first sample take among N1 + N2.
Interleavings(N1, N2) == {S \in SUBSET (1..(N1 + N2)) : Cardinality(S) = N1}

\* The pairs of one element of each sample with that of the first sample
\* after that of the second.
UOf(S, N1, N2) == Cardinality({xy \in S \X ((1..(N1 + N2)) \ S) : xy[1] > xy[2]})

Interleaved(N1, N2, u) ==
    Rat(Cardinality({S \in Interleavings(N1, N2) : UOf(S, N1, N2) = u}), choose(N1 + N2, N1))

pReturned == call # Nil /\ call.fn = "p" /\ call.returned

\* C12: without ties, for all sizes N1, N2 >= 0 and every u in 0..U, entry
\* u of UDist.p(U) is the number of interleavings of N1 and N2 elements
\* with statistic u divided by C(N1+N2, N1); (N2, N1) gives the same, and
\* the row rewritten in place from high U down to 0 holds the values of
\* the recurrence evaluated on separate tables.
C12_Interleavings ==
    pReturned =>
        /\ DOMAIN call.result = 0..call.U
        /\ \A u \in 0..call.U :
              /\ call.result[u] = Interleaved(call.N1, call.N2, u)
              /\ call.result[u] = MannWhitney(call.N1, call.N2, u)
        /\ call.result = p(call.N2, call.N1, call.U)

\* p has returned for three and two elements, where half of the ten
\* interleavings have statistic 2, 3 or 4.
C12_Returned ==
    /\ pReturned
    /\ call.N1 = 3 /\ call.N2 = 2 /\ call.U = 6
    /\ call.result[3] = <<1, 5>>
    /\ call.result[6] = <<1, 10>>

\* The tie group of place i of the pooled sample with tie vector t.
RECURSIVE GroupOf(_, _)
GroupOf(t, i) == IF i <= t[1] THEN 1 ELSE 1 + GroupOf(Tail(t), i - t[1])

\* Twice the U statistic, by average ranks, of the first sample at the
\* places S: 2 for each element of the second sample below, 1 for each tied.
PairScore(t, x, y) ==
    IF GroupOf(t, x) > GroupOf(t, y) THEN 2 ELSE IF GroupOf(t, x) = GroupOf(t, y) THEN 1 ELSE 0

RECURSIVE SumOver(_, _, _)
SumOver(t, x, Y) ==
    IF Y = {} THEN 0
    ELSE PairScore(t, x, CHOOSE y \in Y : TRUE) + SumOver(t, x, Y \ {CHOOSE y \in Y : TRUE})

RECURSIVE TwoUOf(_, _, _)
TwoUOf(t, S, Y) ==
    IF S = {} THEN 0
    ELSE SumOver(t, CHOOSE x \in S : TRUE, Y) + TwoUOf(t, S \ {CHOOSE x \in S : TRUE}, Y)

\* The tie vector of no ties written out.
Ones(n) == [i \in 1..n |-> 1]

TiesOf(d) == IF d.T = <<>> THEN Ones(d.N1 + d.N2) ELSE d.T

\* The assignments of d whose statistic satisfies twoU <= bound,
\* respectively = bound.
AtMost(d, bound) ==
    {S \in Interleavings(d.N1, d.N2) : TwoUOf(TiesOf(d), S, (1..(d.N1 + d.N2)) \ S) <= bound}

Exactly(d, bound) ==
    {S \in Interleavings(d.N1, d.N2) : TwoUOf(TiesOf(d), S, (1..(d.N1 + d.N2)) \ S) = bound}

\* The exact fraction of the assignments with statistic <= U.
ExactCDF(d, U) ==
    Rat(Cardinality(AtMost(d, TruncInt(FMul(<<2, 1>>, U)))), choose(d.N1 + d.N2, d.N1))

ExactPMF(d, U) ==
    Rat(Cardinality(Exactly(d, TruncInt(FMul(<<2, 1>>, U)))), choose(d.N1 + d.N2, d.N1))

\* Some tie group larger than 1 and at least two tie groups.
Tied(d) == hasTies(d) /\ Len(d.T) >= 2

Returned(fn) == call # Nil /\ call.fn = fn /\ call.returned

\* C13: with ties (some tie group larger than 1, at least two groups), for
\* every half-integer U with 0 <= U < N1*N2, CDF(U) is the exact fraction
\* of the C(N1+N2, N1) assignments of the first sample to the pooled places
\* whose U statistic by average ranks is <= U.
C13_Original ==
    Returned("CDF") /\ Tied(call.d) /\ ~CDFBelow(call.U) /\ ~CDFAbove(call.d, call.U) =>
        call.result = ExactCDF(call.d, call.U)

\* CDF(0) of one element against two, the lower two places tied, has
\* returned 2/3: the statistic is 1/2 or 2.
C13_Truncated ==
    /\ Returned("CDF")
    /\ call.d = UDist(1, 2, <<2, 1>>)
    /\ call.U = <<0, 1>>
    /\ call.result = <<2, 3>>
    /\ ExactCDF(call.d, call.U) = <<0, 1>>

\* The sum of PMF(h/2) for h from 0 to twoU
RECURSIVE PMFSum(_, _)
PMFSum(d, twoU) ==
    IF twoU < 0 THEN <<0, 1>> ELSE FAdd(PMF(d, Rat(twoU, 2)), PMFSum(d, twoU - 1))

PMFAsked(d, U) == FLe(<<0, 1>>, U) /\ FLe(U, FromInt(N1N2(d)))

\* C14: with ties PMF(U) is CDF(U) - CDF(U - 0.5) at every half-integer U
\* in [0, N1*N2], where CDF of a negative argument is 0; so PMF(0) is the
\* probability that U is exactly 0, and the values of PMF over
\* 0, 0.5, ..., N1*N2 sum to 1.
C14_Original ==
    Returned("PMF") /\ Tied(call.d) /\ PMFAsked(call.d, call.U) =>
        /\ call.result = FSub(CDF(call.d, call.U), CDF(call.d, FSub(call.U, <<1, 2>>)))
        /\ call.U = <<0, 1>> => call.result = ExactPMF(call.d, call.U)
        /\ PMFSum(call.d, 2 * N1N2(call.d)) = <<1, 1>>

\* PMF(0) of one element against two, the upper two places tied, has
\* returned 0, where the statistic is 0 for one assignment of three.
C14_Zero ==
    /\ Returned("PMF")
    /\ call.d = UDist(1, 2, <<1, 2>>)
    /\ call.U = <<0, 1>>
    /\ call.result = <<0, 1>>
    /\ ExactPMF(call.d, call.U) = <<1, 3>>
    /\ CDF(call.d, call.U) = <<1, 3>>

\* Without ties, or with ties in at least two tie groups.
Regime(d) == ~hasTies(d) \/ Tied(d)

C16_Tail ==
    /\ Returned("CDF") /\ ~hasTies(call.d) /\ ~CDFBelow(call.U) /\ ~CDFAbove(call.d, call.U) =>
          /\ call.result = SumTo(p(call.d.N1, call.d.N2, Floor(call.U)), Floor(call.U))
          /\ call.flip <=> Floor(call.U) >= (N1N2(call.d) + 1) \div 2
          /\ call.flip => call.Ui = N1N2(call.d) - Floor(call.U) - 1
    /\ call # Nil /\ call.fn = "CDF" /\ call.at = "sum" => call.Ui >= 0 /\ call.panic = ""

\* CDF has returned through the symmetric tail.
C16_Flipped ==
    /\ Returned("CDF")
    /\ ~hasTies(call.d)
    /\ call.flip
    /\ call.Ui = 0
    /\ FLt(call.result, <<1, 1>>)

\* C17: Step() is 1 for a tie vector that is empty or all ones, and 0.5
\* otherwise.
C17_Original ==
    Returned("Step") =>
        call.result = IF hasTies(call.d) THEN <<1, 2>> ELSE <<1, 1>>

\* Step has returned 0.5 for a distribution without ties.
C17_Half ==
    /\ Returned("Step")
    /\ ~hasTies(call.d)
    /\ call.d.N1 > 0 /\ call.d.N2 > 0
    /\ call.result = <<1, 2>>

TestReturned(fn) == call # Nil /\ call.fn = fn /\ call.returned

NoTies(xs) == ~hasTies(UDist(0, Len(xs), TieVector(Sort(xs))))

\* C18: the two-sided Mann-Whitney p-value is symmetric in its samples:
\* for all x and y, with or without ties, the P computed for (x, y) from
\* UDist{N1=|x|, N2=|y|, T} equals the P computed for (y, x) from
\* UDist{N1=|y|, N2=|x|, T}.
C18_Original ==
    TestReturned("utest") /\ call.err = NoError /\ call.alt = LocationDiffers =>
        call.pval = MannWhitneyUTest(call.x2, call.x1, call.alt).P

\* C18 without ties: for all x and y whose pooled values are all different
\* the two-sided P of (x, y) equals that of (y, x).
C18_Symmetric ==
    TestReturned("utest") /\ call.err = NoError /\ call.alt = LocationDiffers
      /\ NoTies(call.x1 \o call.x2) =>
        call.pval = MannWhitneyUTest(call.x2, call.x1, call.alt).P

\* The two-sided U-test of two samples without ties, of different sizes,
\* has returned a p-value below 1.
C18_Swapped ==
    /\ TestReturned("utest")
    /\ call.err = NoError
    /\ call.alt = LocationDiffers
    /\ NoTies(call.x1 \o call.x2)
    /\ Len(call.x1) = 2 /\ Len(call.x2) = 1
    /\ call.U1 # call.U2
    /\ call.pval = <<2, 3>>

\* C19: every test that returns without error returns a p-value P with
\* 0 <= P <= 1, for every alternative; the only value outside [0, 1] that
\* is treated as a p-value is the -1 of notest and of a test that failed.
C19_Original ==
    call # Nil /\ call.fn \in {"notest", "ttest", "utest"} /\ call.returned =>
        IF call.fn = "notest" \/ call.err # NoError
        THEN call.pval = <<-1, 1>>
        ELSE FLe(<<0, 1>>, call.pval) /\ FLe(call.pval, One)

\* ttest has returned NaN without an error for a sample with an infinite
\* value, which Metric keeps.
C19_NaN ==
    /\ TestReturned("ttest")
    /\ call.alt = LocationDiffers
    /\ call.err = NoError
    /\ IsNaN(call.pval)
    /\ call.x1 = <<<<1, 1>>, PosInf>>
    /\ call.x2 = <<<<1, 1>>, <<2, 1>>>>
    /\ RValuesOf(call.x1, Fences(call.x1)) = call.x1

\* C20: the U-test returns the sample-size error when either sample is
\* empty and the all-samples-equal error when the pooled sample is a single
\* tie group, so the distribution with ties is never asked with fewer than
\* two tie groups: the panic 'K < 2' of makeUmemo is not reached.
C20_NoPanic ==
    call # Nil /\ call.fn = "utest" =>
        /\ call.panic = ""
        /\ call.at = "p" => ~UTestPanics(call.d) /\ (hasTies(call.d) => Len(call.d.T) >= 2)
        /\ call.returned /\ (call.x1 = <<>> \/ call.x2 = <<>>) => call.err = ErrSampleSize
        /\ call.returned /\ call.x1 # <<>> /\ call.x2 # <<>> /\ AllEqual(call.x1 \o call.x2) =>
              call.err = ErrSamplesEqual

\* The U-test of samples that are all one value has returned the error.
C20_Equal ==
    /\ TestReturned("utest")
    /\ Len(call.x1) = 2 /\ Len(call.x2) = 1
    /\ AllEqual(call.x1 \o call.x2)
    /\ call.err = ErrSamplesEqual
    /\ call.pval = <<-1, 1>>

InBisectCall == call # Nil /\ call.fn = "bisect"

\* Two numbers, both below 0, both 0 or both above 0.
SameSign(a, b) == ~IsNaN(a) /\ ~IsNaN(b) /\ sign(a) = sign(b)

\* Two numbers, one below 0 and one above.
OppositeSigns(a, b) == ~IsNaN(a) /\ ~IsNaN(b) /\ sign(a) * sign(b) = -1

\* |y| <= tolerance
Small(y, tolerance) == FLe(FNeg(tolerance), y) /\ FLe(y, tolerance)

\* bisect is past the checks of its endpoints.
Entered == call.at = "loop" \/ call.returned \/ call.panic # ""

\* C22: bisect fails with the bracketing error whenever f(low) and f(high)
\* have the same sign, for every f, low, high and tolerance; it never
\* returns a result for an interval whose endpoints do not bracket a root.
C22_Original ==
    InBisectCall /\ Entered /\ SameSign(call.f[call.low0], call.f[call.high0]) =>
        call.panic # "" /\ ~call.returned

\* C22 with the tolerance first: when f(low) and f(high) have the same
\* sign, bisect returns low if |f(low)| <= tolerance, else high if
\* |f(high)| <= tolerance, and fails with the bracketing error otherwise.
C22_Bracketing ==
    InBisectCall /\ Entered /\ SameSign(call.f[call.low0], call.f[call.high0]) =>
        IF Small(call.f[call.low0], call.tolerance)
        THEN call.returned /\ call.ok /\ call.x = call.low0
        ELSE IF Small(call.f[call.high0], call.tolerance)
        THEN call.returned /\ call.ok /\ call.x = call.high0
        ELSE call.panic # "" /\ ~call.returned

\* bisect has returned low for an f that is below 0 at both endpoints and
\* within the tolerance at low.
C22_WithinTolerance ==
    /\ InBisectCall
    /\ call.returned /\ call.ok /\ call.x = call.low0
    /\ call.low0 < call.high0
    /\ call.f[call.low0] = <<-1, 1>> /\ call.f[call.high0] = <<-2, 1>>
    /\ call.tolerance = One

\* What C23 says of a call whose endpoints bracket a root.
BisectSafe ==
    /\ call.panic = ""
    /\ call.returned =>
          /\ call.low0 <= call.x /\ call.x <= call.high0
          /\ call.ok => Small(call.f[call.x], call.tolerance)
          /\ ~call.ok => call.x = call.mid /\ (call.mid = call.low \/ call.mid = call.high)
    /\ call.at = "loop" =>
          /\ call.flow = call.f[call.low] /\ call.fhigh = call.f[call.high]
          /\ OppositeSigns(call.flow, call.fhigh)

Bracketing == InBisectCall /\ OppositeSigns(call.f[call.low0], call.f[call.high0])

NoNaN == \A i \in call.low0..call.high0 : ~IsNaN(call.f[i])

InCalls == call # Nil /\ call.fn = "calls"

FloorsReturned == call # Nil /\ call.fn = "Floors" /\ call.returned

\* C25: Floors returns the floor (the greatest integer not above the
\* value) of each element of xs, negative non-integral values included, in
\* the same order and with the same length as xs.
C25_Original ==
    FloorsReturned =>
        /\ Len(call.res) = Len(call.xs)
        /\ \A i \in 1..Len(call.xs) : call.res[i] = Floor(call.xs[i])

\* Floors has returned 0 for -1/2, whose floor is -1.
C25_Negative ==
    /\ FloorsReturned
    /\ call.xs = <<<<1, 2>>, <<-1, 2>>>>
    /\ call.res = <<0, 0>>

\* The ways to place n1 elements of the first sample into the first k tie
\* groups: r[j] of them in group j.
RECURSIVE Placements(_, _, _)
Placements(k, n1, t) ==
    IF k = 0 THEN IF n1 = 0 THEN {<<>>} ELSE {}
    ELSE UNION {{Append(r, rk) : r \in Placements(k - 1, n1 - rk, t)}
                : rk \in 0..minint(n1, t[k])}

\* 2U of a placement: for every element of the first sample, 2 for every
\* element of the second sample in a group below it and 1 for every one in
\* its own group.
TwoUOfPlacement(r, t) ==
    sumint([k \in 1..Len(r) |->
               r[k] * (2 * sumint([j \in 1..(k - 1) |-> t[j] - r[j]]) + (t[k] - r[k]))])

PlacedTwoU == {TwoUOfPlacement(r, call.t) : r \in Placements(call.K, call.n1, call.t)}

TwoUReturned == call # Nil /\ call.fn = "twoU" /\ ~IsNil(call.min) /\ ~IsNil(call.max)

\* C26: for every prefix length k >= 1 and every n1 from 0 to
\* t[0]+...+t[k-1], twoUmin(k, n1, t, a) <= twoUmax(k, n1, t, a), and the
\* two are the smallest and the largest 2U over all placements of n1
\* elements of the first sample into the first k tie groups.
C26_Extremes ==
    TwoUReturned =>
        /\ Deref(call.min) <= Deref(call.max)
        /\ Deref(call.min) \in PlacedTwoU
        /\ Deref(call.max) \in PlacedTwoU
        /\ \A u \in PlacedTwoU : Deref(call.min) <= u /\ u <= Deref(call.max)

\* Both have returned for a prefix of three tie groups with more than one
\* placement, the smallest 2U below the largest.
C26_Apart ==
    /\ TwoUReturned
    /\ call.K = 3 /\ Len(call.t) > 3
    /\ Cardinality(PlacedTwoU) > 2
    /\ Deref(call.min) < Deref(call.max)

InMakeUmemo == call # Nil /\ call.fn = "makeUmemo"

\* C27: in makeUmemo every key of level k-1 that the bottom-up fill reads
\* (those whose 2U lies within twoUmin..twoUmax) was inserted by the
\* top-down pass, so no probability is taken from a missing map entry; and
\* every key stored at a level k < K has 0 <= n1 <= t[0]+...+t[k-1] and
\* twoUmin <= 2U <= twoUmax.
C27_Keys ==
    InMakeUmemo =>
        /\ call.at = "up" /\ call.k > 3 => call.read \subseteq DOMAIN call.pr[call.k - 2]
        /\ \A l \in DOMAIN call.pr : l < call.K =>
              \A key \in DOMAIN call.pr[l] :
                 /\ 0 <= key.n1 /\ key.n1 <= sumint(SubSeq(call.t, 1, l))
                 /\ inBounds(l, key, call.t, call.a)

\* makeUmemo has returned after a fill of its fourth level that read more
\* than one key of the third.
C27_Filled ==
    /\ InMakeUmemo
    /\ call.returned
    /\ call.K = 4
    /\ Cardinality(call.read) > 1
    /\ \E key \in call.read : FLt(<<0, 1>>, call.pr[3][key]) /\ FLt(call.pr[3][key], One)

\* C28: with more than two files the loop that strips the trailing empty
\* cells of a row stops with the cell of the benchmark's name still in the
\* row and never indexes an empty row, for every parsed input, a benchmark
\* without the table's metric in any file and a benchmark with the empty
\* name included.
C28_Original ==
    Len(groups) > 2 =>
        /\ pc # "panic"
        /\ pc \in {"print", "done"} =>
              \A t \in 1..Len(tables) : \A r \in 2..Len(tables[t]) : Len(tables[t][r]) >= 1

\* The program has panicked over three files: the first file has a metric
\* that its benchmark with the empty name has in no file.
C28_EmptyRow ==
    /\ pc = "panic" /\ exit = 2
    /\ Len(groups) = 3
    /\ \E m \in 1..Len(Metrics(groups[1])) :
          /\ <<>> \in DOMAIN groups[1].ByName
          /\ \A g \in 1..3 : ~HasMetric(groups[g], <<>>, Metrics(groups[1])[m])

\* Whether s is what is left of w after dropping some of its elements.
RECURSIVE IsSubsequence(_, _)
IsSubsequence(s, w) ==
    IF s = <<>> THEN TRUE
    ELSE IF w = <<>> THEN FALSE
    ELSE IF Head(s) = Head(w) THEN IsSubsequence(Tail(s), Tail(w))
    ELSE IsSubsequence(s, Tail(w))

\* What C29 says of the Benchstat, if any, of a benchmark and a metric.
KeepsOne(stat) ==
    ~IsNil(stat) =>
        /\ Deref(stat).Values # <<>>
        /\ Deref(stat).RValues # <<>>
        /\ IsSubsequence(Deref(stat).RValues, Deref(stat).Values)
        /\ Deref(stat).Min # PosInf \/ Deref(stat).Max # NegInf
        /\ Deref(stat).RValues = Ints(<<1>>) => Deref(stat).Mean = One

\* C29: for every metric of a benchmark with at least one recorded value
\* the outlier filter keeps at least one value, so that Min, Max and Mean
\* are those of a sample that is not empty, and the values kept are a
\* subsequence of the values recorded.
C29_Original ==
    pc \in {"print", "done"} =>
        \A g \in 1..Len(groups) : \A b \in 1..Len(groups[g].Benchmarks) :
            \A m \in 1..Len(Metrics(groups[g])) :
                KeepsOne(Metric(Some(groups[g].Benchmarks[b]), Metrics(groups[g])[m]))

\* The tables of two files were written, the second with NaN as the one
\* value of a metric: Metric kept no value of it, and the test was called
\* with the empty sample.
C29_NoneKept ==
    /\ Done
    /\ Len(groups) = 2
    /\ \E i \in 1..Len(tests) :
          /\ ValuesIn(groups[2], tests[i].name, tests[i].metric) = <<NaN>>
          /\ tests[i].new = <<>>

\* What C30 says of a group.
Consistent(g) ==
    /\ \A i, j \in 1..Len(g.Benchmarks) :
          g.Benchmarks[i].Name = g.Benchmarks[j].Name => i = j
    /\ DOMAIN g.ByName = {g.Benchmarks[i].Name : i \in 1..Len(g.Benchmarks)}
    /\ \A i \in 1..Len(g.Benchmarks) :
          /\ g.ByName[g.Benchmarks[i].Name] = i
          /\ Len(g.Benchmarks[i].Runs) >= 1
          /\ \A r \in 1..Len(g.Benchmarks[i].Runs) :
                /\ g.Benchmarks[i].Runs[r].N # Zero
                /\ Len(g.Benchmarks[i].Runs[r].M) >= 1

\* C30: after readFile has processed any sequence of lines its group is
\* consistent: no two of its Benchmarks have the same name, the keys of
\* ByName are the names of the Benchmarks and ByName[b.Name] is b, every
\* benchmark has a run, and every run has a count that is not zero and at
\* least one metric.
C30_Consistent == pc = "read" /\ Len(groups) = 1 => Consistent(groups[1])

\* readFile has read three lines: it skipped one and put the runs of the
\* two others under one benchmark.
C30_Grouped ==
    /\ pc = "read" /\ lines = <<<<>>>>
    /\ Len(Split(input[1], "\n")) = 4
    /\ Len(groups[1].Benchmarks) = 1
    /\ Len(groups[1].Benchmarks[1].Runs) = 2
    /\ \E i \in 1..3 : ~LineAccepted(Split(input[1], "\n")[i])


====
